---- MODULE Spec2Model ----
(***************************************************************************)
(* Model of common/flatpak-run.c: the permission Context (bitsets, maps,   *)
(* generic policy, key-file and argv serialisation, merge) and the export  *)
(* planner (FlatpakExports).                                               *)
(*                                                                         *)
(* A C string is a sequence of tokens: "!network" is <<"!", "network">>,   *)
(* "host:ro" is <<"host", ":ro">>, "s.k" is <<"s", ".", "k">>.  A bitmask  *)
(* is the set of its bit indexes (bit i is 1 << i).  A GHashTable is a     *)
(* function whose DOMAIN is the set of keys.                               *)
(***************************************************************************)
EXTENDS Integers, Sequences, FiniteSets, TLC

VARIABLES
  ctx,      \* the FlatpakContext objects, by name
  metakey,  \* the GKeyFile flatpak_context_save_metadata last wrote
  args,     \* the GPtrArray flatpak_context_to_args last filled
  nops,     \* number of Context operations performed
  last,     \* the Context operation performed last
  exports,  \* FlatpakExports.hash
  xlast,    \* the export request performed last
  xmodes,   \* per requested path, the permission modes exposed successfully
  xops,     \* number of export requests performed
  pc,       \* the step flatpak_run_app is at, or how the launch ended
  run,      \* the parameters and locals of the running flatpak_run_app
  events,   \* what the running launch did so far, in order
  ld_so_dir, \* the ld.so cache directories: their files and active symlink
  prev      \* what the previous launch left: its checksum and ld_so_fd

vars == <<ctx, metakey, args, nops, last, exports, xlast, xmodes, xops,
          pc, run, events, ld_so_dir, prev>>

ctxvars == <<ctx, metakey, args, nops, last>>

xvars == <<exports, xlast, xmodes, xops>>

runvars == <<pc, run, events, ld_so_dir, prev>>

(* ---------------------------------------------------------------------- *)
(* Bounds                                                                  *)
(* ---------------------------------------------------------------------- *)
MaxOps == 3

MaxExportOps == 3

(* ---------------------------------------------------------------------- *)
(* Tables and enums                                                        *)
(* ---------------------------------------------------------------------- *)
FLATPAK_FILESYSTEM_MODE_READ_ONLY == 1
FLATPAK_FILESYSTEM_MODE_READ_WRITE == 2
FLATPAK_FILESYSTEM_MODE_CREATE == 3

flatpak_context_shares == <<"network", "ipc">>
flatpak_context_sockets == <<"x11", "wayland", "pulseaudio", "session-bus", "system-bus">>
flatpak_context_devices == <<"dri", "all", "kvm">>
flatpak_context_features == <<"devel", "multiarch">>

policies == <<"none", "see", "filtered", "talk", "own">>
FLATPAK_POLICY_NONE == 0
FLATPAK_POLICY_SEE == 1
FLATPAK_POLICY_FILTERED == 2
FLATPAK_POLICY_TALK == 3
FLATPAK_POLICY_OWN == 4

(* ---------------------------------------------------------------------- *)
(* GHashTable and string helpers                                           *)
(* ---------------------------------------------------------------------- *)
g_hash_table_new == [k \in {} |-> 0]

g_hash_table_insert(h, k, v) ==
  [x \in (DOMAIN h) \cup {k} |-> IF x = k THEN v ELSE h[x]]

(* NULL (0) when the key is absent *)
g_hash_table_lookup(h, k) == IF k \in DOMAIN h THEN h[k] ELSE 0

(* Iteration order of a hash table is unspecified; one order is fixed. *)
RECURSIVE g_hash_table_get_keys_as_array(_)
g_hash_table_get_keys_as_array(S) ==
  IF S = {} THEN <<>>
  ELSE LET k == CHOOSE x \in S : TRUE
       IN <<k>> \o g_hash_table_get_keys_as_array(S \ {k})

g_str_has_suffix(s, suffix) == Len(s) >= 1 /\ s[Len(s)] = suffix

g_str_has_prefix(s, prefix) == Len(s) >= 1 /\ s[1] = prefix

(* index of the first occurrence of token t in s, 0 when absent *)
strchr(s, t) ==
  IF \E i \in 1..Len(s) : s[i] = t
  THEN CHOOSE i \in 1..Len(s) : s[i] = t /\ \A j \in 1..(i - 1) : s[j] # t
  ELSE 0

(* ---------------------------------------------------------------------- *)
(* FlatpakContext                                                          *)
(* ---------------------------------------------------------------------- *)
flatpak_context_new ==
  [shares |-> {}, shares_valid |-> {},
   sockets |-> {}, sockets_valid |-> {},
   devices |-> {}, devices_valid |-> {},
   features |-> {}, features_valid |-> {},
   env_vars |-> g_hash_table_new,
   persistent |-> g_hash_table_new,
   filesystems |-> g_hash_table_new,
   session_bus_policy |-> g_hash_table_new,
   system_bus_policy |-> g_hash_table_new,
   generic_policy |-> g_hash_table_new]

flatpak_context_bitmask_from_string(name, names) ==
  {i \in 0..(Len(names) - 1) : <<names[i + 1]>> = name}

RECURSIVE bitmask_to_string_from(_, _, _, _)
bitmask_to_string_from(i, enabled, valid, names) ==
  IF i >= Len(names) THEN <<>>
  ELSE (IF i \in valid
        THEN (IF i \in enabled THEN << <<names[i + 1]>> >>
                               ELSE << <<"!", names[i + 1]>> >>)
        ELSE <<>>)
       \o bitmask_to_string_from(i + 1, enabled, valid, names)

flatpak_context_bitmask_to_string(enabled, valid, names) ==
  bitmask_to_string_from(0, enabled, valid, names)

RECURSIVE bitmask_to_args_from(_, _, _, _, _, _)
bitmask_to_args_from(i, enabled, valid, names, enable_arg, disable_arg) ==
  IF i >= Len(names) THEN <<>>
  ELSE (IF i \in valid
        THEN (IF i \in enabled
              THEN << [opt |-> enable_arg, value |-> <<names[i + 1]>>] >>
              ELSE << [opt |-> disable_arg, value |-> <<names[i + 1]>>] >>)
        ELSE <<>>)
       \o bitmask_to_args_from(i + 1, enabled, valid, names, enable_arg, disable_arg)

flatpak_context_bitmask_to_args(enabled, valid, names, enable_arg, disable_arg) ==
  bitmask_to_args_from(0, enabled, valid, names, enable_arg, disable_arg)

(* index into policies, -1 for an unknown token *)
flatpak_policy_from_string(string) ==
  IF \E i \in 1..Len(policies) : <<policies[i]>> = string
  THEN (CHOOSE i \in 1..Len(policies) : <<policies[i]>> = string) - 1
  ELSE -1

flatpak_policy_to_string(policy) ==
  IF policy = FLATPAK_POLICY_SEE THEN "see"
  ELSE IF policy = FLATPAK_POLICY_TALK THEN "talk"
  ELSE IF policy = FLATPAK_POLICY_OWN THEN "own"
  ELSE "none"

(* g_dbus_is_name && !g_dbus_is_unique_name, over the names the model uses *)
WellFormedBusNames == {"org.a", "org.b"}

flatpak_verify_dbus_name(name) ==
  LET name_part == IF g_str_has_suffix(name, ".*")
                   THEN SubSeq(name, 1, Len(name) - 1) ELSE name
  IN Len(name_part) = 1 /\ name_part[1] \in WellFormedBusNames

flatpak_context_add_shares_unmarked(c, shares) ==
  [c EXCEPT !.shares = @ \cup shares]

flatpak_context_add_shares(c, shares) ==
  [c EXCEPT !.shares_valid = @ \cup shares, !.shares = @ \cup shares]

flatpak_context_remove_shares(c, shares) ==
  [c EXCEPT !.shares_valid = @ \cup shares, !.shares = @ \ shares]

flatpak_context_add_sockets(c, sockets) ==
  [c EXCEPT !.sockets_valid = @ \cup sockets, !.sockets = @ \cup sockets]

flatpak_context_remove_sockets(c, sockets) ==
  [c EXCEPT !.sockets_valid = @ \cup sockets, !.sockets = @ \ sockets]

flatpak_context_add_devices(c, devices) ==
  [c EXCEPT !.devices_valid = @ \cup devices, !.devices = @ \cup devices]

flatpak_context_remove_devices(c, devices) ==
  [c EXCEPT !.devices_valid = @ \cup devices, !.devices = @ \ devices]

flatpak_context_add_features(c, features) ==
  [c EXCEPT !.features_valid = @ \cup features, !.features = @ \cup features]

flatpak_context_remove_features(c, features) ==
  [c EXCEPT !.features_valid = @ \cup features, !.features = @ \ features]

flatpak_context_set_env_var(c, name, value) ==
  [c EXCEPT !.env_vars = g_hash_table_insert(@, name, value)]

flatpak_context_set_session_bus_policy(c, name, policy) ==
  [c EXCEPT !.session_bus_policy = g_hash_table_insert(@, name, policy)]

flatpak_context_set_system_bus_policy(c, name, policy) ==
  [c EXCEPT !.system_bus_policy = g_hash_table_insert(@, name, policy)]

(* cmp1/cmp2: the value with one leading '!' skipped *)
StripBang(v) == IF Len(v) >= 1 /\ v[1] = "!" THEN Tail(v) ELSE v

apply_generic_policy_list_exact(old_v, value) ==
  SelectSeq(old_v, LAMBDA old : old # value) \o <<value>>

apply_generic_policy_list(old_v, value) ==
  SelectSeq(old_v, LAMBDA old : StripBang(old) # StripBang(value)) \o <<value>>

flatpak_context_apply_generic_policy_first(c, key, value) ==
  [c EXCEPT !.generic_policy =
     g_hash_table_insert(@, key,
        <<value>> \o
        SelectSeq(IF key \in DOMAIN c.generic_policy THEN c.generic_policy[key] ELSE <<>>,
                  LAMBDA old : StripBang(old) # StripBang(value)))]

flatpak_context_apply_generic_policy(c, key, value) ==
  [c EXCEPT !.generic_policy =
     g_hash_table_insert(@, key,
        apply_generic_policy_list(
           IF key \in DOMAIN c.generic_policy THEN c.generic_policy[key] ELSE <<>>,
           value))]

flatpak_context_set_persistent(c, path) ==
  [c EXCEPT !.persistent = g_hash_table_insert(@, path, 1)]

parse_filesystem_flags(filesystem) ==
  IF g_str_has_suffix(filesystem, ":ro")
  THEN [fs |-> SubSeq(filesystem, 1, Len(filesystem) - 1),
        mode |-> FLATPAK_FILESYSTEM_MODE_READ_ONLY]
  ELSE IF g_str_has_suffix(filesystem, ":rw")
  THEN [fs |-> SubSeq(filesystem, 1, Len(filesystem) - 1),
        mode |-> FLATPAK_FILESYSTEM_MODE_READ_WRITE]
  ELSE IF g_str_has_suffix(filesystem, ":create")
  THEN [fs |-> SubSeq(filesystem, 1, Len(filesystem) - 1),
        mode |-> FLATPAK_FILESYSTEM_MODE_CREATE]
  ELSE [fs |-> filesystem, mode |-> FLATPAK_FILESYSTEM_MODE_READ_WRITE]

(* xdg-* prefixes get_xdg_user_dir_from_string accepts *)
XdgPrefixes ==
  {"xdg-desktop", "xdg-documents", "xdg-download", "xdg-music", "xdg-pictures",
   "xdg-public-share", "xdg-templates", "xdg-videos",
   "xdg-data", "xdg-cache", "xdg-config"}

flatpak_context_verify_filesystem(filesystem_and_mode) ==
  LET filesystem == parse_filesystem_flags(filesystem_and_mode).fs
  IN \/ filesystem = <<"host">>
     \/ filesystem = <<"home">>
     \/ (Len(filesystem) >= 1 /\ filesystem[1] \in XdgPrefixes)
     \/ (Len(filesystem) >= 2 /\ filesystem[1] = "xdg-run")
     \/ g_str_has_prefix(filesystem, "~/")
     \/ g_str_has_prefix(filesystem, "/")

flatpak_context_add_filesystem(c, what) ==
  LET p == parse_filesystem_flags(what)
  IN [c EXCEPT !.filesystems = g_hash_table_insert(@, p.fs, p.mode)]

flatpak_context_remove_filesystem(c, what) ==
  [c EXCEPT !.filesystems =
     g_hash_table_insert(@, parse_filesystem_flags(what).fs, 0)]

(* ---------------------------------------------------------------------- *)
(* flatpak_context_merge                                                   *)
(* ---------------------------------------------------------------------- *)
RECURSIVE merge_hash(_, _, _)
merge_hash(h, other, keys) ==
  IF keys = <<>> THEN h
  ELSE merge_hash(g_hash_table_insert(h, Head(keys), other[Head(keys)]),
                  other, Tail(keys))

RECURSIVE apply_generic_policy_values(_, _, _)
apply_generic_policy_values(c, key, policy_values) ==
  IF policy_values = <<>> THEN c
  ELSE apply_generic_policy_values(
         flatpak_context_apply_generic_policy(c, key, Head(policy_values)),
         key, Tail(policy_values))

RECURSIVE merge_generic_policy(_, _, _)
merge_generic_policy(c, other, keys) ==
  IF keys = <<>> THEN c
  ELSE merge_generic_policy(
         apply_generic_policy_values(c, Head(keys), other.generic_policy[Head(keys)]),
         other, Tail(keys))

merge_bits_union(enabled, other_enabled, other_valid) ==
  enabled \cup other_enabled

merge_bits(enabled, other_enabled, other_valid) ==
  (enabled \ other_valid) \cup other_enabled

flatpak_context_merge(c, other) ==
  LET keysof(h) == g_hash_table_get_keys_as_array(DOMAIN h)
      c1 == [c EXCEPT
               !.shares = merge_bits(@, other.shares, other.shares_valid),
               !.shares_valid = @ \cup other.shares_valid,
               !.sockets = merge_bits(@, other.sockets, other.sockets_valid),
               !.sockets_valid = @ \cup other.sockets_valid,
               !.devices = merge_bits(@, other.devices, other.devices_valid),
               !.devices_valid = @ \cup other.devices_valid,
               !.features = merge_bits(@, other.features, other.features_valid),
               !.features_valid = @ \cup other.features_valid,
               !.env_vars = merge_hash(@, other.env_vars, keysof(other.env_vars)),
               !.persistent = merge_hash(@, other.persistent, keysof(other.persistent)),
               !.filesystems = merge_hash(@, other.filesystems, keysof(other.filesystems)),
               !.session_bus_policy =
                  merge_hash(@, other.session_bus_policy, keysof(other.session_bus_policy)),
               !.system_bus_policy =
                  merge_hash(merge_hash(@, other.system_bus_policy,
                                        keysof(other.system_bus_policy)),
                             other.system_bus_policy, keysof(other.system_bus_policy))]
  IN merge_generic_policy(c1, other, keysof(other.generic_policy))

(* ---------------------------------------------------------------------- *)
(* Option callbacks: each returns [ok, c]                                  *)
(* ---------------------------------------------------------------------- *)
Ok(c) == [ok |-> TRUE, c |-> c]
Fail(c) == [ok |-> FALSE, c |-> c]

option_share_cb(c, value) ==
  LET share == flatpak_context_bitmask_from_string(value, flatpak_context_shares)
  IN IF share = {} THEN Fail(c) ELSE Ok(flatpak_context_add_shares(c, share))

option_unshare_cb(c, value) ==
  LET share == flatpak_context_bitmask_from_string(value, flatpak_context_shares)
  IN IF share = {} THEN Fail(c) ELSE Ok(flatpak_context_remove_shares(c, share))

option_socket_cb(c, value) ==
  LET socket == flatpak_context_bitmask_from_string(value, flatpak_context_sockets)
  IN IF socket = {} THEN Fail(c) ELSE Ok(flatpak_context_add_sockets(c, socket))

option_nosocket_cb(c, value) ==
  LET socket == flatpak_context_bitmask_from_string(value, flatpak_context_sockets)
  IN IF socket = {} THEN Fail(c) ELSE Ok(flatpak_context_remove_sockets(c, socket))

option_device_cb(c, value) ==
  LET device == flatpak_context_bitmask_from_string(value, flatpak_context_devices)
  IN IF device = {} THEN Fail(c) ELSE Ok(flatpak_context_add_devices(c, device))

option_nodevice_cb(c, value) ==
  LET device == flatpak_context_bitmask_from_string(value, flatpak_context_devices)
  IN IF device = {} THEN Fail(c) ELSE Ok(flatpak_context_remove_devices(c, device))

option_allow_cb(c, value) ==
  LET feature == flatpak_context_bitmask_from_string(value, flatpak_context_features)
  IN IF feature = {} THEN Fail(c) ELSE Ok(flatpak_context_add_features(c, feature))

option_disallow_cb(c, value) ==
  LET feature == flatpak_context_bitmask_from_string(value, flatpak_context_features)
  IN IF feature = {} THEN Fail(c) ELSE Ok(flatpak_context_remove_features(c, feature))

option_filesystem_cb(c, value) ==
  IF ~flatpak_context_verify_filesystem(value) THEN Fail(c)
  ELSE Ok(flatpak_context_add_filesystem(c, value))

option_nofilesystem_cb(c, value) ==
  IF ~flatpak_context_verify_filesystem(value) THEN Fail(c)
  ELSE Ok(flatpak_context_remove_filesystem(c, value))

(* g_strsplit (value, "=", 2) *)
option_env_cb(c, value) ==
  LET t == strchr(value, "=")
  IN IF t = 0 \/ t = 1 THEN Fail(c)
     ELSE Ok(flatpak_context_set_env_var(c, SubSeq(value, 1, t - 1),
                                         SubSeq(value, t + 1, Len(value))))

option_own_name_cb(c, value) ==
  IF ~flatpak_verify_dbus_name(value) THEN Fail(c)
  ELSE Ok(flatpak_context_set_session_bus_policy(c, value, FLATPAK_POLICY_OWN))

option_talk_name_cb(c, value) ==
  IF ~flatpak_verify_dbus_name(value) THEN Fail(c)
  ELSE Ok(flatpak_context_set_session_bus_policy(c, value, FLATPAK_POLICY_TALK))

option_system_own_name_cb(c, value) ==
  IF ~flatpak_verify_dbus_name(value) THEN Fail(c)
  ELSE Ok(flatpak_context_set_system_bus_policy(c, value, FLATPAK_POLICY_OWN))

option_system_talk_name_cb(c, value) ==
  IF ~flatpak_verify_dbus_name(value) THEN Fail(c)
  ELSE Ok(flatpak_context_set_system_bus_policy(c, value, FLATPAK_POLICY_TALK))

option_add_generic_policy_cb(c, value) ==
  LET t == strchr(value, "=")
      policy_value == SubSeq(value, t + 1, Len(value))
      key == SubSeq(value, 1, t - 1)
  IN IF t = 0 THEN Fail(c)
     ELSE IF strchr(key, ".") = 0 THEN Fail(c)
     ELSE IF Len(policy_value) >= 1 /\ policy_value[1] = "!" THEN Fail(c)
     ELSE Ok(flatpak_context_apply_generic_policy(c, key, policy_value))

option_remove_generic_policy_cb(c, value) ==
  LET t == strchr(value, "=")
      policy_value == SubSeq(value, t + 1, Len(value))
      key == SubSeq(value, 1, t - 1)
      extended_value == <<"!">> \o policy_value
  IN IF t = 0 THEN Fail(c)
     ELSE IF strchr(key, ".") = 0 THEN Fail(c)
     ELSE IF Len(policy_value) >= 1 /\ policy_value[1] = "!" THEN Fail(c)
     ELSE Ok(flatpak_context_apply_generic_policy(c, key, extended_value))

option_persist_cb(c, value) == Ok(flatpak_context_set_persistent(c, value))

(* long names of the GOptionEntry table; "--%s-name" is three tokens *)
context_options ==
  { <<"share">>, <<"unshare">>, <<"socket">>, <<"nosocket">>, <<"device">>,
    <<"nodevice">>, <<"allow">>, <<"disallow">>, <<"filesystem">>,
    <<"nofilesystem">>, <<"env">>, <<"own", "-name">>, <<"talk", "-name">>,
    <<"system-", "own", "-name">>, <<"system-", "talk", "-name">>,
    <<"add-policy">>, <<"remove-policy">>, <<"persist">>, <<"no-desktop">> }

(* the callback the table binds to an option *)
context_option_cb(opt, c, value) ==
  CASE opt = <<"share">> -> option_share_cb(c, value)
    [] opt = <<"unshare">> -> option_unshare_cb(c, value)
    [] opt = <<"socket">> -> option_socket_cb(c, value)
    [] opt = <<"nosocket">> -> option_nosocket_cb(c, value)
    [] opt = <<"device">> -> option_device_cb(c, value)
    [] opt = <<"nodevice">> -> option_nodevice_cb(c, value)
    [] opt = <<"allow">> -> option_allow_cb(c, value)
    [] opt = <<"disallow">> -> option_disallow_cb(c, value)
    [] opt = <<"filesystem">> -> option_filesystem_cb(c, value)
    [] opt = <<"nofilesystem">> -> option_nofilesystem_cb(c, value)
    [] opt = <<"env">> -> option_env_cb(c, value)
    [] opt = <<"own", "-name">> -> option_own_name_cb(c, value)
    [] opt = <<"talk", "-name">> -> option_talk_name_cb(c, value)
    [] opt = <<"system-", "own", "-name">> -> option_system_own_name_cb(c, value)
    [] opt = <<"system-", "talk", "-name">> -> option_system_talk_name_cb(c, value)
    [] opt = <<"add-policy">> -> option_add_generic_policy_cb(c, value)
    [] opt = <<"remove-policy">> -> option_remove_generic_policy_cb(c, value)
    [] opt = <<"persist">> -> option_persist_cb(c, value)
    [] OTHER -> Ok(c)

(* Parsing an argv against the option group: an option the table does not
   hold, or a callback returning FALSE, fails the parse. *)
RECURSIVE flatpak_context_parse_args(_, _)
flatpak_context_parse_args(r, argv) ==
  IF ~r.ok \/ argv = <<>> THEN r
  ELSE IF Head(argv).opt \notin context_options THEN Fail(r.c)
  ELSE flatpak_context_parse_args(
         context_option_cb(Head(argv).opt, r.c, Head(argv).value), Tail(argv))

(* ---------------------------------------------------------------------- *)
(* GKeyFile: [context, session, system, env, policy]                       *)
(*   context: key of [Context] -> string list                              *)
(*   session, system, env: key -> value of the three named groups          *)
(*   policy: <<group, key>> -> string list of the "Policy <subsystem>"     *)
(*           groups, a group name being <<"Policy ", subsystem tokens>>    *)
(* ---------------------------------------------------------------------- *)
g_key_file_new ==
  [context |-> g_hash_table_new, session |-> g_hash_table_new,
   system |-> g_hash_table_new, env |-> g_hash_table_new,
   policy |-> g_hash_table_new]

parse_negated(option) ==
  IF Len(option) >= 1 /\ option[1] = "!"
  THEN [option |-> Tail(option), negated |-> TRUE]
  ELSE [option |-> option, negated |-> FALSE]

add_bits(c, kind, bits) ==
  CASE kind = "shared" -> flatpak_context_add_shares(c, bits)
    [] kind = "sockets" -> flatpak_context_add_sockets(c, bits)
    [] kind = "devices" -> flatpak_context_add_devices(c, bits)
    [] kind = "features" -> flatpak_context_add_features(c, bits)

remove_bits(c, kind, bits) ==
  CASE kind = "shared" -> flatpak_context_remove_shares(c, bits)
    [] kind = "sockets" -> flatpak_context_remove_sockets(c, bits)
    [] kind = "devices" -> flatpak_context_remove_devices(c, bits)
    [] kind = "features" -> flatpak_context_remove_features(c, bits)

RECURSIVE load_bitmask_list(_, _, _, _)
load_bitmask_list(r, list, names, kind) ==
  IF ~r.ok \/ list = <<>> THEN r
  ELSE LET pn == parse_negated(Head(list))
           bits == flatpak_context_bitmask_from_string(pn.option, names)
       IN IF bits = {} THEN Fail(r.c)
          ELSE load_bitmask_list(
                 Ok(IF pn.negated THEN remove_bits(r.c, kind, bits)
                                  ELSE add_bits(r.c, kind, bits)),
                 Tail(list), names, kind)

RECURSIVE load_filesystems(_, _)
load_filesystems(r, list) ==
  IF ~r.ok \/ list = <<>> THEN r
  ELSE LET pn == parse_negated(Head(list))
       IN IF ~flatpak_context_verify_filesystem(pn.option) THEN Fail(r.c)
          ELSE load_filesystems(
                 Ok(IF pn.negated
                    THEN flatpak_context_remove_filesystem(r.c, pn.option)
                    ELSE flatpak_context_add_filesystem(r.c, pn.option)),
                 Tail(list))

RECURSIVE load_persistent(_, _)
load_persistent(r, list) ==
  IF ~r.ok \/ list = <<>> THEN r
  ELSE load_persistent(Ok(flatpak_context_set_persistent(r.c, Head(list))),
                       Tail(list))

RECURSIVE load_bus_policy(_, _, _, _)
load_bus_policy(r, group, keys, bus) ==
  IF ~r.ok \/ keys = <<>> THEN r
  ELSE LET key == Head(keys)
           policy == flatpak_policy_from_string(group[key])
       IN IF ~flatpak_verify_dbus_name(key) THEN Fail(r.c)
          ELSE IF policy = -1 THEN Fail(r.c)
          ELSE load_bus_policy(
                 Ok(IF bus = "session"
                    THEN flatpak_context_set_session_bus_policy(r.c, key, policy)
                    ELSE flatpak_context_set_system_bus_policy(r.c, key, policy)),
                 group, Tail(keys), bus)

RECURSIVE load_environment(_, _, _)
load_environment(r, group, keys) ==
  IF ~r.ok \/ keys = <<>> THEN r
  ELSE load_environment(
         Ok(flatpak_context_set_env_var(r.c, Head(keys), group[Head(keys)])),
         group, Tail(keys))

(* policy_key = "<subsystem>.<key>", subsystem = group name past "Policy " *)
RECURSIVE load_generic_policy(_, _, _)
load_generic_policy(r, policy, gks) ==
  IF ~r.ok \/ gks = <<>> THEN r
  ELSE LET group == Head(gks)[1]
           key == Head(gks)[2]
           subsystem == Tail(group)
           policy_key == subsystem \o <<".">> \o key
       IN load_generic_policy(
            Ok(apply_generic_policy_values(r.c, policy_key, policy[Head(gks)])),
            policy, Tail(gks))

flatpak_context_load_metadata(c, mk) ==
  LET keysof(h) == g_hash_table_get_keys_as_array(DOMAIN h)
      list(k) == IF k \in DOMAIN mk.context THEN mk.context[k] ELSE <<>>
      r1 == load_bitmask_list(Ok(c), list("shared"), flatpak_context_shares, "shared")
      r2 == load_bitmask_list(r1, list("sockets"), flatpak_context_sockets, "sockets")
      r3 == load_bitmask_list(r2, list("devices"), flatpak_context_devices, "devices")
      r4 == load_bitmask_list(r3, list("features"), flatpak_context_features, "features")
      r5 == load_filesystems(r4, list("filesystems"))
      r6 == load_persistent(r5, list("persistent"))
      r7 == load_bus_policy(r6, mk.session, keysof(mk.session), "session")
      r8 == load_bus_policy(r7, mk.system, keysof(mk.system), "system")
      r9 == load_environment(r8, mk.env, keysof(mk.env))
  IN load_generic_policy(r9, mk.policy, keysof(mk.policy))

(* ---------------------------------------------------------------------- *)
(* flatpak_context_save_metadata                                           *)
(* ---------------------------------------------------------------------- *)
RECURSIVE save_filesystems(_, _)
save_filesystems(h, keys) ==
  IF keys = <<>> THEN <<>>
  ELSE LET key == Head(keys)
           mode == h[key]
       IN (IF mode = FLATPAK_FILESYSTEM_MODE_READ_ONLY THEN << key \o <<":ro">> >>
           ELSE IF mode = FLATPAK_FILESYSTEM_MODE_CREATE THEN << key \o <<":create">> >>
           ELSE IF mode # 0 THEN << key >>
           ELSE <<>>)
          \o save_filesystems(h, Tail(keys))

RECURSIVE save_bus_policy(_, _)
save_bus_policy(h, keys) ==
  IF keys = <<>> THEN g_hash_table_new
  ELSE LET key == Head(keys)
           rest == save_bus_policy(h, Tail(keys))
       IN IF h[key] > 0
          THEN g_hash_table_insert(rest, key, <<flatpak_policy_to_string(h[key])>>)
          ELSE rest

RECURSIVE save_generic_policy(_, _, _)
save_generic_policy(h, keys, flatten) ==
  IF keys = <<>> THEN g_hash_table_new
  ELSE LET key == Head(keys)
           dot == strchr(key, ".")
           parts0 == SubSeq(key, 1, dot - 1)
           parts1 == SubSeq(key, dot + 1, Len(key))
           new == SelectSeq(h[key], LAMBDA policy_value :
                              ~flatten \/ ~g_str_has_prefix(policy_value, "!"))
           group == <<"Policy ">> \o parts0
           rest == save_generic_policy(h, Tail(keys), flatten)
       IN IF Len(new) > 0
          THEN g_hash_table_insert(rest, <<group, parts1>>, new)
          ELSE rest

save_shares_bits_unflattened(c, flatten) ==
  [mask |-> c.shares, valid |-> c.shares_valid]

(* the locals of save_metadata after the flatten block: [mask, valid] *)
save_shares_bits(c, flatten) ==
  LET mask == IF flatten THEN c.shares \cap c.shares_valid ELSE c.shares
  IN [mask |-> mask, valid |-> IF flatten THEN mask ELSE c.shares_valid]

save_sockets_bits(c, flatten) ==
  LET mask == IF flatten THEN c.sockets \cap c.sockets_valid ELSE c.sockets
  IN [mask |-> mask, valid |-> IF flatten THEN mask ELSE c.sockets_valid]

save_devices_bits(c, flatten) ==
  LET mask == IF flatten THEN c.devices \cap c.devices_valid ELSE c.devices
  IN [mask |-> mask, valid |-> IF flatten THEN mask ELSE c.devices_valid]

(* features_valid is initialised from context->features *)
save_features_bits(c, flatten) ==
  LET features_valid == c.features
      mask == IF flatten THEN c.features \cap features_valid ELSE c.features
  IN [mask |-> mask, valid |-> IF flatten THEN mask ELSE features_valid]

flatpak_context_save_metadata(c, flatten) ==
  LET keysof(h) == g_hash_table_get_keys_as_array(DOMAIN h)
      sh == save_shares_bits(c, flatten)
      so == save_sockets_bits(c, flatten)
      de == save_devices_bits(c, flatten)
      fe == save_features_bits(c, flatten)
      shared == flatpak_context_bitmask_to_string(sh.mask, sh.valid, flatpak_context_shares)
      sockets == flatpak_context_bitmask_to_string(so.mask, so.valid, flatpak_context_sockets)
      devices == flatpak_context_bitmask_to_string(de.mask, de.valid, flatpak_context_devices)
      features == flatpak_context_bitmask_to_string(fe.mask, fe.valid, flatpak_context_features)
      set(g, k, l, present) == IF present THEN g_hash_table_insert(g, k, l) ELSE g
      g1 == set(g_hash_table_new, "shared", shared, shared # <<>>)
      g2 == set(g1, "sockets", sockets, sockets # <<>>)
      g3 == set(g2, "devices", devices, devices # <<>>)
      g4 == set(g3, "features", features, features # <<>>)
      g5 == set(g4, "filesystems",
                save_filesystems(c.filesystems, keysof(c.filesystems)),
                DOMAIN c.filesystems # {})
      g6 == set(g5, "persistent", keysof(c.persistent), DOMAIN c.persistent # {})
  IN [context |-> g6,
      session |-> save_bus_policy(c.session_bus_policy, keysof(c.session_bus_policy)),
      system |-> save_bus_policy(c.system_bus_policy, keysof(c.system_bus_policy)),
      env |-> c.env_vars,
      policy |-> save_generic_policy(c.generic_policy, keysof(c.generic_policy), flatten)]

(* ---------------------------------------------------------------------- *)
(* flatpak_context_to_args: an argument "--<opt>=<value>" is [opt, value]  *)
(* ---------------------------------------------------------------------- *)
RECURSIVE env_to_args(_, _)
env_to_args(h, keys) ==
  IF keys = <<>> THEN <<>>
  ELSE << [opt |-> <<"env">>, value |-> Head(keys) \o <<"=">> \o h[Head(keys)]] >>
       \o env_to_args(h, Tail(keys))

RECURSIVE persistent_to_args(_)
persistent_to_args(keys) ==
  IF keys = <<>> THEN <<>>
  ELSE << [opt |-> <<"persist">>, value |-> Head(keys)] >>
       \o persistent_to_args(Tail(keys))

RECURSIVE bus_policy_to_args(_, _, _)
bus_policy_to_args(h, keys, prefix) ==
  IF keys = <<>> THEN <<>>
  ELSE << [opt |-> prefix \o <<flatpak_policy_to_string(h[Head(keys)]), "-name">>,
           value |-> Head(keys)] >>
       \o bus_policy_to_args(h, Tail(keys), prefix)

RECURSIVE filesystems_to_args(_, _)
filesystems_to_args(h, keys) ==
  IF keys = <<>> THEN <<>>
  ELSE LET key == Head(keys)
           mode == h[key]
       IN << (IF mode = FLATPAK_FILESYSTEM_MODE_READ_ONLY
              THEN [opt |-> <<"filesystem">>, value |-> key \o <<":ro">>]
              ELSE IF mode = FLATPAK_FILESYSTEM_MODE_READ_WRITE
              THEN [opt |-> <<"filesystem">>, value |-> key]
              ELSE IF mode = FLATPAK_FILESYSTEM_MODE_CREATE
              THEN [opt |-> <<"filesystem">>, value |-> key \o <<":create">>]
              ELSE [opt |-> <<"nofilesystem">>, value |-> key]) >>
          \o filesystems_to_args(h, Tail(keys))

flatpak_context_to_args(c) ==
  LET keysof(h) == g_hash_table_get_keys_as_array(DOMAIN h)
  IN flatpak_context_bitmask_to_args(c.shares, c.shares_valid, flatpak_context_shares,
                                     <<"share">>, <<"unshare">>)
     \o flatpak_context_bitmask_to_args(c.sockets, c.sockets_valid, flatpak_context_sockets,
                                        <<"socket">>, <<"nosocket">>)
     \o flatpak_context_bitmask_to_args(c.devices, c.devices_valid, flatpak_context_devices,
                                        <<"device">>, <<"nodevice">>)
     \o flatpak_context_bitmask_to_args(c.features, c.features_valid, flatpak_context_features,
                                        <<"allow">>, <<"disallow">>)
     \o env_to_args(c.env_vars, keysof(c.env_vars))
     \o persistent_to_args(keysof(c.persistent))
     \o bus_policy_to_args(c.session_bus_policy, keysof(c.session_bus_policy), <<>>)
     \o bus_policy_to_args(c.system_bus_policy, keysof(c.system_bus_policy), <<"system-">>)
     \o filesystems_to_args(c.filesystems, keysof(c.filesystems))

(* ---------------------------------------------------------------------- *)
(* Host filesystem the export planner looks at.  A path is a token         *)
(* sequence; an absolute path starts with the token "/":                   *)
(* "/home/u" is <<"/", "home", "u">>, "rel/x" is <<"rel", "x">>.           *)
(* ---------------------------------------------------------------------- *)
Dir == [type |-> "dir", target |-> <<>>]
Reg == [type |-> "reg", target |-> <<>>]
Fifo == [type |-> "fifo", target |-> <<>>]
Lnk(t) == [type |-> "lnk", target |-> t]

HostFS ==
  ( <<"/">> :> Dir
 @@ <<"/", "home">> :> Dir
 @@ <<"/", "home", "u">> :> Dir
 @@ <<"/", "home", "u", "f">> :> Reg
 @@ <<"/", "home", "u", "in">> :> Lnk(<<"f">>)
 @@ <<"/", "home", "u", "pipe">> :> Fifo
 @@ <<"/", "home", "u", "a">> :> Lnk(<<"b">>)
 @@ <<"/", "home", "u", "b">> :> Lnk(<<"a">>)
 @@ <<"/", "lnk">> :> Lnk(<<"/", "home", "u">>)
 @@ <<"/", "usr">> :> Dir
 @@ <<"/", "usr", "x">> :> Reg
 @@ <<"/", "bad">> :> Lnk(<<"/", "usr">>)
 @@ <<"/", "c1">> :> Lnk(<<"/", "c2">>)
 @@ <<"/", "c2">> :> Lnk(<<"/", "c1">>)
 @@ <<"/", "tmp">> :> Lnk(<<"/", "home", "u">>)
 @@ <<"/", "home", "u", ".var">> :> Dir
 @@ <<"/", "home", "u", ".var", "app">> :> Dir
 @@ <<"/", "home", "u", ".var", "app", "org.app">> :> Dir
 @@ <<"/", "home", "u", ".var", "app", "org.other">> :> Dir )

(* the paths the export requests of the model name *)
ExposePaths ==
  { <<"/", "home">>,                 \* a directory
    <<"/", "home", "u">>,            \* a directory in it
    <<"/", "home", "u", "f">>,       \* a regular file
    <<"/", "home", "u", "in">>,      \* a relative symlink to f
    <<"/", "home", "u", "pipe">>,    \* a fifo
    <<"/", "lnk">>,                  \* a symlink to /home/u
    <<"/", "lnk", "f">>,             \* a file reached through a symlink
    <<"/", "home", "..", "usr", "x">>, \* beneath an opaque prefix
    <<"/", "bad">>,                  \* a symlink into an opaque prefix
    <<"/", "c1">>,                   \* a symlink cycle
    <<"/", "tmp">>,                  \* /tmp, a symlink on this host
    <<"/", "missing">>,              \* absent
    <<"rel", "x">> }                 \* relative

FAKE_MODE_DIR == -1
FAKE_MODE_TMPFS == 0
FAKE_MODE_SYMLINK == 2147483647

MaxExposeLevel == 40

dont_export_in ==
  << <<"/", "lib">>, <<"/", "lib32">>, <<"/", "lib64">>, <<"/", "bin">>,
     <<"/", "sbin">>, <<"/", "usr">>, <<"/", "etc">>, <<"/", "app">>,
     <<"/", "dev">> >>

g_path_is_absolute(path) == Len(path) >= 1 /\ path[1] = "/"

g_path_get_dirname(path) ==
  IF Len(path) <= 2 THEN <<"/">> ELSE SubSeq(path, 1, Len(path) - 1)

(* g_build_filename (dir, rest) *)
g_build_filename(dir, rest) ==
  dir \o (IF g_path_is_absolute(rest) THEN Tail(rest) ELSE rest)

(* lexical removal of "." and ".." from an absolute path *)
RECURSIVE canonicalize_from(_, _)
canonicalize_from(done, rest) ==
  IF rest = <<>> THEN done
  ELSE IF Head(rest) = "." THEN canonicalize_from(done, Tail(rest))
  ELSE IF Head(rest) = ".."
  THEN canonicalize_from(IF Len(done) > 1 THEN SubSeq(done, 1, Len(done) - 1) ELSE done,
                         Tail(rest))
  ELSE canonicalize_from(done \o <<Head(rest)>>, Tail(rest))

flatpak_canonicalize_filename(path) == canonicalize_from(<<"/">>, Tail(path))

(* str is prefix or has prefix as a leading run of whole path elements *)
flatpak_has_path_prefix(str, prefix) ==
  Len(prefix) <= Len(str) /\ SubSeq(str, 1, Len(prefix)) = prefix

(* The kernel's path walk: every component but the last is followed
   through symlinks (at most MaxExposeLevel of them, then ELOOP).  Returns the
   real path of the last component, <<>> when the walk fails. *)
RECURSIVE path_walk(_, _, _)
path_walk(cur, rest, fuel) ==
  IF rest = <<>> THEN cur
  ELSE LET c == Head(rest)
           next == IF c = "." THEN cur
                   ELSE IF c = ".." THEN g_path_get_dirname(cur)
                   ELSE cur \o <<c>>
       IN IF next \notin DOMAIN HostFS THEN <<>>
          ELSE IF Len(rest) = 1 THEN next
          ELSE IF HostFS[next].type = "lnk"
          THEN (IF fuel = 0 THEN <<>>
                ELSE LET t == HostFS[next].target
                     IN IF g_path_is_absolute(t)
                        THEN path_walk(<<"/">>, Tail(t) \o Tail(rest), fuel - 1)
                        ELSE path_walk(cur, t \o Tail(rest), fuel - 1))
          ELSE IF HostFS[next].type = "dir" THEN path_walk(next, Tail(rest), fuel)
          ELSE <<>>

(* st_mode type of lstat (path), "none" when lstat fails *)
lstat(path) ==
  LET real == path_walk(<<"/">>, Tail(path), MaxExposeLevel)
  IN IF real = <<>> THEN "none" ELSE HostFS[real].type

path_is_dir(path) == lstat(path) = "dir"

path_is_symlink(path) == lstat(path) = "lnk"

(* readlink, a relative link made absolute against the link's directory;
   <<>> when path is not a symlink *)
flatpak_resolve_link(path) ==
  LET real == path_walk(<<"/">>, Tail(path), MaxExposeLevel)
  IN IF real = <<>> \/ HostFS[real].type # "lnk" THEN <<>>
     ELSE IF g_path_is_absolute(HostFS[real].target) THEN HostFS[real].target
     ELSE g_build_filename(g_path_get_dirname(path), HostFS[real].target)

(* ---------------------------------------------------------------------- *)
(* FlatpakExports: hash path -> mode                                       *)
(* ---------------------------------------------------------------------- *)
exports_new == g_hash_table_new

MAX_smaller(a, b) == IF a < b THEN a ELSE b

MAX(a, b) == IF a > b THEN a ELSE b

do_export_path_overwrite(ex, path, mode) ==
  g_hash_table_insert(ex, path, mode)

do_export_path(ex, path, mode) ==
  g_hash_table_insert(ex, path,
     IF path \in DOMAIN ex THEN MAX(ex[path], mode) ELSE mode)

never_export_as_symlink(path) == path = <<"/", "tmp">>

XOk(ex) == [ok |-> TRUE, ex |-> ex]
XFail(ex) == [ok |-> FALSE, ex |-> ex]

expose_refused_lexical(path, level) ==
  \/ level > MaxExposeLevel
  \/ ~g_path_is_absolute(path)
  \/ lstat(path) \notin {"dir", "reg", "lnk", "sock"}
  \/ \E i \in 1..Len(dont_export_in) :
        flatpak_has_path_prefix(path, dont_export_in[i])

(* the requests _exports_path_expose refuses before walking the path *)
expose_refused(path, level) ==
  \/ level > MaxExposeLevel
  \/ ~g_path_is_absolute(path)
  \/ lstat(path) \notin {"dir", "reg", "lnk", "sock"}
  \/ \E i \in 1..Len(dont_export_in) :
        flatpak_has_path_prefix(flatpak_canonicalize_filename(path), dont_export_in[i])

(* the do/while over the '/'-terminated prefixes of canonical: the length of
   the first prefix that is a symlink to export as one, 0 when there is none *)
first_symlink_prefix(canonical) ==
  LET hit(n) == /\ path_is_symlink(SubSeq(canonical, 1, n))
                /\ ~never_export_as_symlink(SubSeq(canonical, 1, n))
      range == 2..Len(canonical)
  IN IF \E n \in range : hit(n)
     THEN CHOOSE n \in range : hit(n) /\ \A m \in 2..(n - 1) : ~hit(m)
     ELSE 0

(* new_target: the resolved link with the rest of the path appended, <<>>
   when the link cannot be read *)
expose_new_target(canonical, n) ==
  LET resolved == flatpak_resolve_link(SubSeq(canonical, 1, n))
  IN IF resolved = <<>> THEN <<>>
     ELSE IF n < Len(canonical)
     THEN g_build_filename(resolved, SubSeq(canonical, n + 1, Len(canonical)))
     ELSE resolved

(* One activation of _exports_path_expose.  A frame is
   [status, path, level, links, final]: the request of the activation, the
   symlink prefixes the callers will record once it returns TRUE, and the
   canonical path the innermost activation records. *)
expose_frame(path, level) ==
  [status |-> "run", path |-> path, level |-> level, links |-> <<>>, final |-> <<>>]

expose_step(st) ==
  IF st.status # "run" THEN st
  ELSE IF expose_refused(st.path, st.level) THEN [st EXCEPT !.status = "fail"]
  ELSE LET canonical == flatpak_canonicalize_filename(st.path)
           n == first_symlink_prefix(canonical)
       IN IF n = 0 THEN [st EXCEPT !.status = "ok", !.final = canonical]
          ELSE IF expose_new_target(canonical, n) = <<>>
          THEN [st EXCEPT !.status = "fail"]
          ELSE [st EXCEPT !.path = expose_new_target(canonical, n),
                          !.level = st.level + 1,
                          !.links = <<SubSeq(canonical, 1, n)>> \o @]

(* the recursion: activations nest until one returns *)
RECURSIVE expose_run(_)
expose_run(st) ==
  IF st.status # "run" THEN st
  ELSE CHOOSE r \in { expose_run(next) : next \in {expose_step(st)} } : TRUE

(* the returns: the innermost activation records the path, then every caller
   records its symlink, innermost first *)
RECURSIVE export_links(_, _)
export_links(ex, links) ==
  IF links = <<>> THEN ex
  ELSE export_links(do_export_path(ex, Head(links), FAKE_MODE_SYMLINK), Tail(links))

(* The walk reads the host filesystem only, so its outcome for a top-level
   request is a function of the path: computed once per path. *)
expose_walks == [p \in ExposePaths |-> expose_run(expose_frame(p, 0))]

_exports_path_expose_links_first(ex, mode, path, level) ==
  LET st == IF level = 0 /\ path \in ExposePaths
            THEN expose_walks[path]
            ELSE expose_run(expose_frame(path, level))
  IN IF st.status = "ok"
     THEN XOk(export_links(do_export_path(ex, st.final, mode), st.links))
     ELSE XFail(export_links(ex, st.links))

_exports_path_expose(ex, mode, path, level) ==
  LET st == IF level = 0 /\ path \in ExposePaths
            THEN expose_walks[path]
            ELSE expose_run(expose_frame(path, level))
  IN IF st.status = "ok"
     THEN XOk(export_links(do_export_path(ex, st.final, mode), st.links))
     ELSE XFail(ex)

exports_path_expose(ex, mode, path) == _exports_path_expose(ex, mode, path, 0)

exports_path_tmpfs(ex, path) == _exports_path_expose(ex, FAKE_MODE_TMPFS, path, 0)

exports_path_dir(ex, path) == _exports_path_expose(ex, FAKE_MODE_DIR, path, 0)

(* ---------------------------------------------------------------------- *)
(* exports_add_bwrap_args                                                  *)
(* ---------------------------------------------------------------------- *)
(* path elements of HostFS in strcmp order; no element is another one
   followed by a byte below '/' *)
NameOrder ==
  <<".var", "a", "app", "b", "bad", "c1", "c2", "f", "home", "in", "lnk",
    "org.app", "org.other", "pipe", "tmp", "u", "usr">>

NameRank(n) == IF \E i \in 1..Len(NameOrder) : NameOrder[i] = n
               THEN CHOOSE i \in 1..Len(NameOrder) : NameOrder[i] = n
               ELSE 0

(* g_strcmp0 (a, b) < 0 for two absolute paths *)
RECURSIVE path_less(_, _)
path_less(a, b) ==
  IF b = <<>> THEN FALSE
  ELSE IF a = <<>> THEN TRUE
  ELSE IF Head(a) = Head(b) THEN path_less(Tail(a), Tail(b))
  ELSE NameRank(Head(a)) < NameRank(Head(b))

compare_eps_children_first(a, b) == path_less(b, a)

compare_eps(a, b) == path_less(a, b)

(* g_list_sort / g_qsort_with_data over the keys *)
RECURSIVE sort_paths(_)
sort_paths(S) ==
  IF S = {} THEN <<>>
  ELSE LET m == CHOOSE x \in S : \A y \in S \ {x} : compare_eps(x, y)
       IN <<m>> \o sort_paths(S \ {m})

RECURSIVE path_parent_is_mapped_from(_, _, _, _)
path_parent_is_mapped_from(keys, ex, path, is_mapped) ==
  IF keys = <<>> THEN is_mapped
  ELSE LET mounted_path == Head(keys)
       IN path_parent_is_mapped_from(Tail(keys), ex, path,
            IF flatpak_has_path_prefix(path, mounted_path) /\ path # mounted_path
               /\ ex[mounted_path] # FAKE_MODE_DIR
            THEN ex[mounted_path] # FAKE_MODE_TMPFS
            ELSE is_mapped)

(* the loop run for an entry beneath path, so that the entry of path itself
   takes part *)
path_parent_is_mapped_with_self(keys, ex, path) ==
  path_parent_is_mapped_from(keys, ex, path \o <<"">>, FALSE)

path_parent_is_mapped(keys, ex, path) ==
  path_parent_is_mapped_from(keys, ex, path, FALSE)

RECURSIVE path_is_mapped_from(_, _, _, _)
path_is_mapped_from(keys, ex, path, is_mapped) ==
  IF keys = <<>> THEN is_mapped
  ELSE LET mounted_path == Head(keys)
       IN path_is_mapped_from(Tail(keys), ex, path,
            IF flatpak_has_path_prefix(path, mounted_path)
               /\ ex[mounted_path] # FAKE_MODE_DIR
            THEN (IF ex[mounted_path] = FAKE_MODE_SYMLINK
                  THEN path = mounted_path
                  ELSE ex[mounted_path] # FAKE_MODE_TMPFS)
            ELSE is_mapped)

path_is_mapped(keys, ex, path) == path_is_mapped_from(keys, ex, path, FALSE)

(* one "../" per element of base, then path without its leading '/' *)
make_relative(base, path) ==
  [i \in 1..(Len(base) - 1) |-> ".."] \o Tail(path)

RECURSIVE add_bwrap_args_from(_, _, _)
add_bwrap_args_from(eps, keys, ex) ==
  IF eps = <<>> THEN <<>>
  ELSE LET path == Head(eps)
           mode == ex[path]
           resolved == flatpak_resolve_link(path)
           out ==
             IF mode = FAKE_MODE_SYMLINK
             THEN (IF ~path_parent_is_mapped(keys, ex, path) /\ resolved # <<>>
                   THEN << [op |-> "--symlink",
                            src |-> make_relative(g_path_get_dirname(path), resolved),
                            dst |-> path] >>
                   ELSE <<>>)
             ELSE IF mode = FAKE_MODE_TMPFS
             THEN (IF path_is_dir(path)
                   THEN (IF ~path_parent_is_mapped(keys, ex, path)
                         THEN << [op |-> "--dir", src |-> <<>>, dst |-> path] >>
                         ELSE << [op |-> "--tmpfs", src |-> <<>>, dst |-> path] >>)
                   ELSE <<>>)
             ELSE IF mode = FAKE_MODE_DIR
             THEN (IF path_is_dir(path)
                   THEN << [op |-> "--dir", src |-> <<>>, dst |-> path] >>
                   ELSE <<>>)
             ELSE << [op |-> IF mode = FLATPAK_FILESYSTEM_MODE_READ_ONLY
                             THEN "--ro-bind" ELSE "--bind",
                      src |-> path, dst |-> path] >>
       IN out \o add_bwrap_args_from(Tail(eps), keys, ex)

exports_add_bwrap_args(ex) ==
  LET keys == sort_paths(DOMAIN ex)
  IN add_bwrap_args_from(keys, keys, ex)

(* ---------------------------------------------------------------------- *)
(* Inputs                                                                  *)
(* ---------------------------------------------------------------------- *)
Slots == {"A", "B"}
OptionSlots == {"A"}

ShareValues == { <<"network">>, <<"ipc">> }
SocketValues == { <<"x11">> }
DeviceValues == { <<"dri">> }
FeatureValues == { <<"devel">> }
FilesystemValues == { <<"host">>, <<"host", ":ro">>, <<"/", "a", ":create">> }
NoFilesystemValues == { <<"host">> }
EnvValues == { <<"K", "=", "V">> }
BusNameValues == { <<"org.a">> }
PolicyValues == { <<"s", ".", "k", "=", "x">>, <<"s", ".", "k", "=", "y">> }
PersistValues == { <<".p">> }

(* metadata of an app: grants, denials, every kind of section *)
MetaApp ==
  [context |-> ( "shared" :> << <<"network">>, <<"!", "ipc">> >>
              @@ "sockets" :> << <<"x11">> >>
              @@ "devices" :> << <<"!", "dri">> >>
              @@ "filesystems" :> << <<"home", ":ro">>, <<"!", "host">> >>
              @@ "persistent" :> << <<".p">> >> ),
   session |-> ( <<"org.a">> :> <<"filtered">> ),
   system |-> ( <<"org.b">> :> <<"see">> ),
   env |-> ( <<"K">> :> <<"W">> ),
   policy |-> ( << <<"Policy ", "s">>, <<"k">> >> :> << <<"x">>, <<"!", "y">> >> )]

(* an override file *)
MetaOverride ==
  [context |-> ( "features" :> << <<"!", "devel">>, <<"multiarch">> >>
              @@ "filesystems" :> << <<"home">> >> ),
   session |-> ( <<"org.a">> :> <<"none">> ),
   system |-> g_hash_table_new,
   env |-> g_hash_table_new,
   policy |-> ( << <<"Policy ", "s">>, <<"k">> >> :> << <<"!", "x">>, <<"z">> >> )]

(* a file with an unknown share token after a valid one *)
MetaBad ==
  [context |-> ( "shared" :> << <<"ipc">>, <<"bogus">> >> ),
   session |-> g_hash_table_new,
   system |-> g_hash_table_new,
   env |-> g_hash_table_new,
   policy |-> g_hash_table_new]

MetadataFiles == { MetaApp, MetaOverride, MetaBad }

PermissionModes ==
  { FLATPAK_FILESYSTEM_MODE_READ_ONLY, FLATPAK_FILESYSTEM_MODE_READ_WRITE,
    FLATPAK_FILESYSTEM_MODE_CREATE }

(* ---------------------------------------------------------------------- *)
(* State machine                                                           *)
(* ---------------------------------------------------------------------- *)
(* flatpak_run_app has not been called: no locals, nothing done, both ld.so
   cache directories empty *)
NoLaunch ==
  /\ pc = "idle"
  /\ run = <<>>
  /\ events = <<>>
  /\ ld_so_dir = [d \in {"app", "user"} |-> [files |-> {}, active |-> <<>>]]
  /\ prev = [checksum |-> <<>>, app_id_dir |-> FALSE, ld_so_fd |-> -1]

Init ==
  /\ ctx = [i \in Slots |-> flatpak_context_new]
  /\ metakey = g_key_file_new
  /\ args = <<>>
  /\ nops = 0
  /\ last = [op |-> "new", self |-> "-", other |-> "-", value |-> <<>>, ok |-> TRUE]
  /\ exports = exports_new
  /\ xlast = [op |-> "new", path |-> <<>>, mode |-> 0, ok |-> TRUE]
  /\ xmodes = [p \in ExposePaths |-> {}]
  /\ xops = 0
  /\ NoLaunch

(* a Context operation on ctx[i] with result r = [ok, c] *)
CtxStep(i, r, op, other, value) ==
  /\ nops < MaxOps
  /\ ctx' = [ctx EXCEPT ![i] = r.c]
  /\ nops' = nops + 1
  /\ last' = [op |-> op, self |-> i, other |-> other, value |-> value, ok |-> r.ok]
  /\ UNCHANGED <<metakey, args>>
  /\ UNCHANGED <<xvars, runvars>>

OptionShare(i) ==
  \E v \in ShareValues : CtxStep(i, option_share_cb(ctx[i], v), "option", "-", <<>>)

OptionUnshare(i) ==
  \E v \in ShareValues : CtxStep(i, option_unshare_cb(ctx[i], v), "option", "-", <<>>)

OptionSocket(i) ==
  \E v \in SocketValues : CtxStep(i, option_socket_cb(ctx[i], v), "option", "-", <<>>)

OptionNosocket(i) ==
  \E v \in SocketValues : CtxStep(i, option_nosocket_cb(ctx[i], v), "option", "-", <<>>)

OptionDevice(i) ==
  \E v \in DeviceValues : CtxStep(i, option_device_cb(ctx[i], v), "option", "-", <<>>)

OptionNodevice(i) ==
  \E v \in DeviceValues : CtxStep(i, option_nodevice_cb(ctx[i], v), "option", "-", <<>>)

OptionAllow(i) ==
  \E v \in FeatureValues : CtxStep(i, option_allow_cb(ctx[i], v), "option", "-", <<>>)

OptionDisallow(i) ==
  \E v \in FeatureValues : CtxStep(i, option_disallow_cb(ctx[i], v), "option", "-", <<>>)

OptionFilesystem(i) ==
  \E v \in FilesystemValues :
     CtxStep(i, option_filesystem_cb(ctx[i], v), "option", "-", <<>>)

OptionNofilesystem(i) ==
  \E v \in NoFilesystemValues :
     CtxStep(i, option_nofilesystem_cb(ctx[i], v), "option", "-", <<>>)

OptionEnv(i) ==
  \E v \in EnvValues : CtxStep(i, option_env_cb(ctx[i], v), "option", "-", <<>>)

OptionOwnName(i) ==
  \E v \in BusNameValues : CtxStep(i, option_own_name_cb(ctx[i], v), "option", "-", <<>>)

OptionTalkName(i) ==
  \E v \in BusNameValues : CtxStep(i, option_talk_name_cb(ctx[i], v), "option", "-", <<>>)

OptionSystemOwnName(i) ==
  \E v \in BusNameValues :
     CtxStep(i, option_system_own_name_cb(ctx[i], v), "option", "-", <<>>)

OptionSystemTalkName(i) ==
  \E v \in BusNameValues :
     CtxStep(i, option_system_talk_name_cb(ctx[i], v), "option", "-", <<>>)

OptionAddPolicy(i) ==
  \E v \in PolicyValues :
     CtxStep(i, option_add_generic_policy_cb(ctx[i], v), "add-policy", "-", v)

OptionRemovePolicy(i) ==
  \E v \in PolicyValues :
     CtxStep(i, option_remove_generic_policy_cb(ctx[i], v), "remove-policy", "-", v)

OptionPersist(i) ==
  \E v \in PersistValues : CtxStep(i, option_persist_cb(ctx[i], v), "option", "-", <<>>)

(* flatpak_context_load_metadata of a metadata or override file *)
LoadMetadata(i) ==
  \E mk \in MetadataFiles :
     CtxStep(i, flatpak_context_load_metadata(ctx[i], mk), "load", "-", <<>>)

(* flatpak_context_load_metadata of the key-file written last *)
LoadSaved(i) ==
  /\ metakey # g_key_file_new
  /\ CtxStep(i, flatpak_context_load_metadata(ctx[i], metakey), "load", "-", <<>>)

Merge(i, j) ==
  /\ i # j
  /\ CtxStep(i, Ok(flatpak_context_merge(ctx[i], ctx[j])), "merge", j, <<>>)

SaveMetadata(i) ==
  \E flatten \in BOOLEAN :
     /\ nops < MaxOps
     /\ metakey' = flatpak_context_save_metadata(ctx[i], flatten)
     /\ nops' = nops + 1
     /\ last' = [op |-> IF flatten THEN "save-flat" ELSE "save", self |-> i,
                 other |-> "-", value |-> <<>>, ok |-> TRUE]
     /\ UNCHANGED <<ctx, args>>
     /\ UNCHANGED <<xvars, runvars>>

ToArgs(i) ==
  /\ nops < MaxOps
  /\ args' = flatpak_context_to_args(ctx[i])
  /\ nops' = nops + 1
  /\ last' = [op |-> "to_args", self |-> i, other |-> "-", value |-> <<>>, ok |-> TRUE]
  /\ UNCHANGED <<ctx, metakey>>
  /\ UNCHANGED <<xvars, runvars>>

(* the option parser run over the argv flatpak_context_to_args produced *)
ParseArgs(i) ==
  /\ args # <<>>
  /\ CtxStep(i, flatpak_context_parse_args(Ok(ctx[i]), args), "parse", "-", <<>>)

(* a command-line option parsed into Context i *)
Option(i) ==
  \/ OptionShare(i) \/ OptionUnshare(i)
  \/ OptionSocket(i) \/ OptionNosocket(i)
  \/ OptionDevice(i) \/ OptionNodevice(i)
  \/ OptionAllow(i) \/ OptionDisallow(i)
  \/ OptionFilesystem(i) \/ OptionNofilesystem(i)
  \/ OptionEnv(i)
  \/ OptionOwnName(i) \/ OptionTalkName(i)
  \/ OptionSystemOwnName(i) \/ OptionSystemTalkName(i)
  \/ OptionAddPolicy(i) \/ OptionRemovePolicy(i)
  \/ OptionPersist(i)

(* Slot A is the Context the command line is parsed into; every slot is
   loaded from files, saved, printed as arguments and merged. *)
Next ==
  \/ \E i \in OptionSlots : Option(i)
  \/ \E i \in Slots :
        \/ LoadMetadata(i) \/ LoadSaved(i)
        \/ SaveMetadata(i) \/ ToArgs(i) \/ ParseArgs(i)
        \/ \E j \in Slots : Merge(i, j)

Spec == Init /\ [][Next]_vars

(* Three Contexts built from options and metadata and merged into each other *)
AssocSlots == {"A", "B", "C"}

InitAssoc ==
  /\ ctx = [i \in AssocSlots |-> flatpak_context_new]
  /\ metakey = g_key_file_new
  /\ args = <<>>
  /\ nops = 0
  /\ last = [op |-> "new", self |-> "-", other |-> "-", value |-> <<>>, ok |-> TRUE]
  /\ exports = exports_new
  /\ xlast = [op |-> "new", path |-> <<>>, mode |-> 0, ok |-> TRUE]
  /\ xmodes = [p \in ExposePaths |-> {}]
  /\ xops = 0
  /\ NoLaunch

NextAssoc ==
  \/ \E i \in OptionSlots :
        \/ OptionShare(i) \/ OptionUnshare(i)
        \/ OptionFilesystem(i) \/ OptionNofilesystem(i)
        \/ OptionOwnName(i) \/ OptionTalkName(i)
        \/ OptionAddPolicy(i) \/ OptionRemovePolicy(i)
  \/ \E i \in AssocSlots :
        \/ LoadMetadata(i)
        \/ \E j \in AssocSlots : Merge(i, j)

SpecAssoc == InitAssoc /\ [][NextAssoc]_vars

(* ---------------------------------------------------------------------- *)
(* Export planner requests                                                 *)
(* ---------------------------------------------------------------------- *)
ExportStep(r, op, path, mode) ==
  /\ xops < MaxExportOps
  /\ exports' = r.ex
  /\ xlast' = [op |-> op, path |-> path, mode |-> mode, ok |-> r.ok]
  /\ xmodes' = IF r.ok /\ mode \in PermissionModes
               THEN [xmodes EXCEPT ![path] = @ \cup {mode}]
               ELSE xmodes
  /\ xops' = xops + 1
  /\ UNCHANGED <<ctxvars, runvars>>

Expose ==
  \E path \in ExposePaths, mode \in PermissionModes :
     ExportStep(exports_path_expose(exports, mode, path), "expose", path, mode)

Tmpfs ==
  \E path \in ExposePaths :
     ExportStep(exports_path_tmpfs(exports, path), "tmpfs", path, FAKE_MODE_TMPFS)

DirOnly ==
  \E path \in ExposePaths :
     ExportStep(exports_path_dir(exports, path), "dir", path, FAKE_MODE_DIR)

NextExports == Expose \/ Tmpfs \/ DirOnly

SpecExports == Init /\ [][NextExports]_vars


(* ---------------------------------------------------------------------- *)
(* flatpak_exports_path_is_visible                                         *)
(* ---------------------------------------------------------------------- *)
(* The for loop over parts from index i on.  The function calls itself for
   a resolved symlink with no depth counter; entered holds the canonical
   paths of the activations on the stack.  The host filesystem and the map do
   not change during the call, so an activation for a path that is already
   on the stack repeats without end: the call does not return ("overflow",
   the stack is exhausted). *)
RECURSIVE is_visible_from(_, _, _, _, _)
is_visible_from(ex, keys, path, i, entered) ==
  IF i > Len(path) THEN "true"
  ELSE LET path_builder == SubSeq(path, 1, i)
       IN IF path_is_mapped(keys, ex, path_builder)
          THEN IF lstat(path_builder) = "none" THEN "false"
               ELSE IF lstat(path_builder) = "lnk"
               THEN LET resolved == flatpak_resolve_link(path_builder)
                    IN IF resolved = <<>> THEN "false"
                       ELSE CHOOSE r \in
                              { IF path2 \in entered THEN "overflow"
                                ELSE is_visible_from(ex, keys, path2, 2,
                                                     entered \cup {path2}) :
                                path2 \in { flatpak_canonicalize_filename(
                                              resolved \o SubSeq(path, i + 1, Len(path))) } } :
                              TRUE
               ELSE is_visible_from(ex, keys, path, i + 1, entered)
          ELSE IF i = Len(path) THEN "false"
          ELSE is_visible_from(ex, keys, path, i + 1, entered)

(* the outcome of the call: "true", "false", or "overflow" *)
is_visible_call(ex, path) ==
  CHOOSE r \in { is_visible_from(ex, sort_paths(DOMAIN ex), canonical, 2, {canonical}) :
                 canonical \in {flatpak_canonicalize_filename(path)} } : TRUE

(* the value the call returns *)
flatpak_exports_path_is_visible(ex, path) == is_visible_call(ex, path) = "true"

(* ---------------------------------------------------------------------- *)
(* regenerate_ld_cache                                                     *)
(* ---------------------------------------------------------------------- *)
(* g_checksum_update appends each non-NULL string to one stream (NULL is
   <<>>); the digest stands for the stream it was computed from. *)
calculate_ld_cache_checksum(app_commit, runtime_commit, app_extensions, runtime_extensions) ==
  <<"sha256:">> \o app_commit \o runtime_commit \o app_extensions
                \o runtime_extensions

(* <app_id_dir>/.ld.so, or <user-cache>/flatpak/ld.so without app_id_dir *)
ld_so_dir_of(app_id_dir) == IF app_id_dir THEN "app" ELSE "user"

(* open (<ld_so_dir>/<checksum>, O_RDONLY): a descriptor, or -1 *)
ld_so_cache_open(dirs, app_id_dir, checksum) ==
  IF checksum \in dirs[ld_so_dir_of(app_id_dir)].files THEN 3 ELSE -1

(* ldconfig -X -C /run/ld-so-cache-dir/<checksum> wrote its file *)
ldconfig_wrote(dirs, app_id_dir, checksum) ==
  [dirs EXCEPT ![ld_so_dir_of(app_id_dir)].files = @ \cup {checksum}]

(* unlink (<ld_so_dir>/<checksum>) *)
ld_so_cache_unlink(dirs, app_id_dir, checksum) ==
  [dirs EXCEPT ![ld_so_dir_of(app_id_dir)].files = @ \ {checksum}]

(* the active symlink is switched to target and the file it pointed to
   before, when it is another one, is removed *)
flatpak_switch_symlink_and_remove(dir, target) ==
  [files |-> dir.files \ ({dir.active} \ {target}), active |-> target]

regenerate_ld_cache_finish_unlinks(dirs, app_id_dir, checksum, opened, switched) ==
  IF ~opened THEN [fd |-> -1, dirs |-> dirs]
  ELSE [fd |-> 3, dirs |-> ld_so_cache_unlink(dirs, app_id_dir, checksum)]

(* What regenerate_ld_cache does after the nested ldconfig exited with
   status 0: open the generated file, then unlink it (no app_id_dir) or
   switch the active symlink.  opened: the open succeeded; switched: the
   symlink switch succeeded. *)
regenerate_ld_cache_finish(dirs, app_id_dir, checksum, opened, switched) ==
  IF ~opened THEN [fd |-> -1, dirs |-> dirs]
  ELSE IF ~app_id_dir
  THEN [fd |-> 3, dirs |-> ld_so_cache_unlink(dirs, app_id_dir, checksum)]
  ELSE IF ~switched THEN [fd |-> -1, dirs |-> dirs]
  ELSE [fd |-> 3,
        dirs |-> [dirs EXCEPT !["app"] =
                    flatpak_switch_symlink_and_remove(@, checksum)]]

(* ---------------------------------------------------------------------- *)
(* setup_seccomp                                                           *)
(* ---------------------------------------------------------------------- *)
AF_UNSPEC == 0
AF_UNIX == 1
AF_INET == 2
AF_AX25 == 3
AF_IPX == 4
AF_APPLETALK == 5
AF_NETROM == 6
AF_BRIDGE == 7
AF_ATMPVC == 8
AF_X25 == 9
AF_INET6 == 10
AF_ROSE == 11
AF_DECnet == 12
AF_NETBEUI == 13
AF_SECURITY == 14
AF_KEY == 15
AF_NETLINK == 16

(* the ioctl request that pushes input into the terminal *)
TIOCSTI == 21522

(* a struct scmp_arg_cmp; no_arg for a rule on the syscall alone *)
no_arg == [arg |-> -1, op |-> "", datum |-> "", mask |-> ""]
SCMP_A0(op, datum) == [arg |-> 0, op |-> op, datum |-> datum, mask |-> ""]
SCMP_A1(op, datum) == [arg |-> 1, op |-> op, datum |-> datum, mask |-> ""]
SCMP_A0_MASKED(mask, datum) ==
  [arg |-> 0, op |-> "SCMP_CMP_MASKED_EQ", datum |-> datum, mask |-> mask]

syscall_blacklist(allowed_personality) ==
  << [scall |-> "syslog", arg |-> no_arg],
     [scall |-> "uselib", arg |-> no_arg],
     [scall |-> "personality", arg |-> SCMP_A0("SCMP_CMP_NE", allowed_personality)],
     [scall |-> "acct", arg |-> no_arg],
     [scall |-> "modify_ldt", arg |-> no_arg],
     [scall |-> "quotactl", arg |-> no_arg],
     [scall |-> "add_key", arg |-> no_arg],
     [scall |-> "keyctl", arg |-> no_arg],
     [scall |-> "request_key", arg |-> no_arg],
     [scall |-> "move_pages", arg |-> no_arg],
     [scall |-> "mbind", arg |-> no_arg],
     [scall |-> "get_mempolicy", arg |-> no_arg],
     [scall |-> "set_mempolicy", arg |-> no_arg],
     [scall |-> "migrate_pages", arg |-> no_arg],
     [scall |-> "unshare", arg |-> no_arg],
     [scall |-> "mount", arg |-> no_arg],
     [scall |-> "pivot_root", arg |-> no_arg],
     [scall |-> "clone", arg |-> SCMP_A0_MASKED("CLONE_NEWUSER", "CLONE_NEWUSER")],
     [scall |-> "ioctl", arg |-> SCMP_A1("SCMP_CMP_EQ", TIOCSTI)] >>

syscall_nondevel_blacklist ==
  << [scall |-> "perf_event_open", arg |-> no_arg],
     [scall |-> "ptrace", arg |-> no_arg] >>

socket_family_blacklist ==
  << AF_AX25, AF_IPX, AF_APPLETALK, AF_NETROM, AF_BRIDGE, AF_ATMPVC, AF_X25,
     AF_ROSE, AF_DECnet, AF_NETBEUI, AF_SECURITY, AF_KEY, AF_NETLINK + 1 >>

(* seccomp_rule_add (seccomp, SCMP_ACT_ERRNO (errno), scall, ...) *)
seccomp_rule(errno, entry) ==
  [action |-> errno, scall |-> entry.scall, arg |-> entry.arg]

(* the loop over socket_family_blacklist: the last entry gets SCMP_CMP_GE *)
socket_family_rules ==
  [i \in 1..Len(socket_family_blacklist) |->
     seccomp_rule("EAFNOSUPPORT",
                  [scall |-> "socket",
                   arg |-> SCMP_A0(IF i = Len(socket_family_blacklist)
                                   THEN "SCMP_CMP_GE" ELSE "SCMP_CMP_EQ",
                                   socket_family_blacklist[i])])]

(* The rules of the filter setup_seccomp exports; the default action is
   SCMP_ACT_ALLOW.  socket_rules: seccomp_rule_add_exact succeeded (its
   result is ignored, so the socket rules are missing when it did not). *)
setup_seccomp_devel_ignored(allowed_personality, devel, socket_rules) ==
  [i \in 1..Len(syscall_blacklist(allowed_personality)) |->
     seccomp_rule("EPERM", syscall_blacklist(allowed_personality)[i])]
  \o (IF socket_rules THEN socket_family_rules ELSE <<>>)

setup_seccomp(allowed_personality, devel, socket_rules) ==
  [i \in 1..Len(syscall_blacklist(allowed_personality)) |->
     seccomp_rule("EPERM", syscall_blacklist(allowed_personality)[i])]
  \o (IF ~devel
      THEN [i \in 1..Len(syscall_nondevel_blacklist) |->
              seccomp_rule("EPERM", syscall_nondevel_blacklist[i])]
      ELSE <<>>)
  \o (IF socket_rules THEN socket_family_rules ELSE <<>>)

(* does a call with arguments a (a function from argument index to value)
   satisfy the rule's comparison *)
scmp_arg_matches(cmp, a) ==
  IF cmp.arg = -1 THEN TRUE
  ELSE IF cmp.op = "SCMP_CMP_EQ" THEN a[cmp.arg] = cmp.datum
  ELSE IF cmp.op = "SCMP_CMP_NE" THEN a[cmp.arg] # cmp.datum
  ELSE IF cmp.op = "SCMP_CMP_GE" THEN a[cmp.arg] >= cmp.datum
  ELSE cmp.mask \in a[cmp.arg]

(* the action the exported filter takes for a system call *)
seccomp_action(rules, scall, a) ==
  IF \E i \in 1..Len(rules) :
        rules[i].scall = scall /\ scmp_arg_matches(rules[i].arg, a)
  THEN rules[CHOOSE i \in 1..Len(rules) :
               rules[i].scall = scall /\ scmp_arg_matches(rules[i].arg, a)].action
  ELSE "ALLOW"

(* ---------------------------------------------------------------------- *)
(* flatpak_run_add_environment_args                                        *)
(* ---------------------------------------------------------------------- *)
(* the index of the bit a name of one of the bitset tables stands for *)
flatpak_context_bit(name, names) ==
  CHOOSE i \in 0..(Len(names) - 1) : names[i + 1] = name

(* app_ref_parts[1] of the launched ref *)
app_id == <<"org.app">>

g_get_home_dir == <<"/", "home", "u">>

(* <home>/.var/app/<app-id>, which flatpak_ensure_data_dir creates *)
flatpak_get_data_dir(id) == g_get_home_dir \o <<".var", "app">> \o id

(* stat: the file type behind path with a final symlink followed *)
RECURSIVE stat(_, _)
stat(path, fuel) ==
  IF lstat(path) # "lnk" THEN lstat(path)
  ELSE IF fuel = 0 THEN "none"
  ELSE stat(flatpak_canonicalize_filename(flatpak_resolve_link(path)), fuel - 1)

(* g_file_test (path, G_FILE_TEST_EXISTS) *)
g_file_test_exists(path) == stat(path, MaxExposeLevel) # "none"

dont_mount_in_root ==
  { ".", "..", "lib", "lib32", "lib64", "bin", "sbin", "usr", "boot", "root",
    "tmp", "etc", "app", "run", "proc", "sys", "dev", "var" }

(* readdir ("/") *)
root_dirents == { p[2] : p \in { q \in DOMAIN HostFS : Len(q) = 2 } }

(* a bwrap option with its operands *)
Arg0(op) == [op |-> op, src |-> <<>>, dst |-> <<>>]
Arg2(op, src, dst) == [op |-> op, src |-> src, dst |-> dst]

(* one call of exports_path_expose, exports_path_tmpfs or exports_path_dir *)
ExportCall(mode, path) == [mode |-> mode, path |-> path]

(* the calls made on the planner in order, each through
   _exports_path_expose at level 0; a failed call is ignored *)
RECURSIVE exports_calls(_, _)
exports_calls(ex, calls) ==
  IF calls = <<>> THEN ex
  ELSE CHOOSE r \in { exports_calls(next, Tail(calls)) :
                        next \in { _exports_path_expose(ex, Head(calls).mode,
                                                        Head(calls).path, 0).ex } } : TRUE

(* The loop over context->filesystems: the exports_path_expose calls it
   makes.  No xdg user directory is configured on the host, and a directory
   missing for a :create entry cannot be made. *)
RECURSIVE export_filesystems(_, _)
export_filesystems(filesystems, keys) ==
  IF keys = <<>> THEN <<>>
  ELSE LET filesystem == Head(keys)
           mode == filesystems[filesystem]
           path == IF g_str_has_prefix(filesystem, "~/")
                   THEN g_build_filename(g_get_home_dir, Tail(filesystem))
                   ELSE filesystem
           call ==
             IF mode = 0 \/ filesystem = <<"host">> \/ filesystem = <<"home">>
             THEN <<>>
             ELSE IF filesystem[1] \in XdgPrefixes \/ filesystem[1] = "xdg-run"
             THEN <<>>
             ELSE IF (g_str_has_prefix(filesystem, "~/")
                        \/ g_str_has_prefix(filesystem, "/"))
                     /\ g_file_test_exists(path)
             THEN << ExportCall(mode, path) >>
             ELSE <<>>
       IN call \o export_filesystems(filesystems, Tail(keys))

home_access_host_only(fs_mode, home_mode) == fs_mode # 0

(* home_access of export_paths_export_context: set where filesystems["host"]
   or filesystems["home"] is not 0 *)
home_access(fs_mode, home_mode) == fs_mode # 0 \/ home_mode # 0

(* the exports of a Context without the tmpfs over the parent of the
   application's data directory *)
export_paths_export_context_bare_parent(context, ex0, app_id_dir) ==
  LET fs_mode == g_hash_table_lookup(context.filesystems, <<"host">>)
      home_mode == g_hash_table_lookup(context.filesystems, <<"home">>)
      root_dirs == sort_paths({ <<"/", d>> : d \in root_dirents \ dont_mount_in_root })
      calls ==
        (IF fs_mode # 0
         THEN [i \in 1..Len(root_dirs) |-> ExportCall(fs_mode, root_dirs[i])]
              \o << ExportCall(fs_mode, <<"/", "run", "media">>) >>
         ELSE <<>>)
        \o (IF home_mode # 0
            THEN << ExportCall(MAX(home_mode, fs_mode), g_get_home_dir) >>
            ELSE <<>>)
        \o export_filesystems(context.filesystems,
                              g_hash_table_get_keys_as_array(DOMAIN context.filesystems))
        \o (IF app_id_dir
            THEN << ExportCall(FLATPAK_FILESYSTEM_MODE_READ_WRITE,
                               flatpak_get_data_dir(app_id)) >>
            ELSE <<>>)
  IN [exports |-> exports_calls(ex0, calls),
      home_access |-> home_access(fs_mode, home_mode)]

export_paths_export_context(context, ex0, app_id_dir) ==
  LET fs_mode == g_hash_table_lookup(context.filesystems, <<"host">>)
      home_mode == g_hash_table_lookup(context.filesystems, <<"home">>)
      root_dirs == sort_paths({ <<"/", d>> : d \in root_dirents \ dont_mount_in_root })
      calls ==
        (IF fs_mode # 0
         THEN [i \in 1..Len(root_dirs) |-> ExportCall(fs_mode, root_dirs[i])]
              \o << ExportCall(fs_mode, <<"/", "run", "media">>) >>
         ELSE <<>>)
        \o (IF home_mode # 0
            THEN << ExportCall(MAX(home_mode, fs_mode), g_get_home_dir) >>
            ELSE <<>>)
        \o export_filesystems(context.filesystems,
                              g_hash_table_get_keys_as_array(DOMAIN context.filesystems))
        \o (IF app_id_dir
            THEN << ExportCall(FAKE_MODE_TMPFS,
                               g_path_get_dirname(flatpak_get_data_dir(app_id))),
                    ExportCall(FLATPAK_FILESYSTEM_MODE_READ_WRITE,
                               flatpak_get_data_dir(app_id)) >>
            ELSE <<>>)
  IN [exports |-> exports_calls(ex0, calls),
      home_access |-> home_access(fs_mode, home_mode)]

(* the --bind of <home>/.var/app/<app-id>/<persist> onto <home>/<persist> *)
RECURSIVE persistent_binds(_)
persistent_binds(keys) ==
  IF keys = <<>> THEN <<>>
  ELSE << Arg2("--bind",
               g_build_filename(flatpak_get_data_dir(app_id), Head(keys)),
               g_build_filename(g_get_home_dir, Head(keys))) >>
       \o persistent_binds(Tail(keys))

(* flatpak_add_bus_filters *)
RECURSIVE bus_filters(_, _)
bus_filters(ht, keys) ==
  IF keys = <<>> THEN <<>>
  ELSE (IF ht[Head(keys)] > 0
        THEN << <<"--", flatpak_policy_to_string(ht[Head(keys)]), "=">> \o Head(keys) >>
        ELSE <<>>)
       \o bus_filters(ht, Tail(keys))

flatpak_add_bus_filters(dbus_proxy_argv, ht, id) ==
  dbus_proxy_argv \o << <<"--filter">> >>
  \o (IF id # <<>>
      THEN << <<"--own=">> \o id, <<"--own=">> \o id \o <<".*">> >>
      ELSE <<>>)
  \o bus_filters(ht, g_hash_table_get_keys_as_array(DOMAIN ht))

(* The proxy argument list flatpak_run_add_session_dbus_args and
   flatpak_add_bus_filters fill; address: DBUS_SESSION_BUS_ADDRESS is set. *)
session_bus_proxy_args(context, flags, address) ==
  IF "NO_SESSION_BUS_PROXY" \in flags \/ ~address
     \/ flatpak_context_bit("session-bus", flatpak_context_sockets) \in context.sockets
  THEN <<>>
  ELSE flatpak_add_bus_filters(<< <<"unix:path=/session">>, <<"session-bus-proxy">> >>,
                               context.session_bus_policy, app_id)

(* flatpak_run_add_system_dbus_args and flatpak_add_bus_filters; socket: the
   system bus socket exists *)
system_bus_proxy_args(context, flags, socket) ==
  IF "NO_SYSTEM_BUS_PROXY" \in flags
     \/ (socket /\ flatpak_context_bit("system-bus", flatpak_context_sockets)
                      \in context.sockets)
     \/ DOMAIN context.system_bus_policy = {}
  THEN <<>>
  ELSE flatpak_add_bus_filters(<< <<"unix:path=/system">>, <<"system-bus-proxy">> >>,
                               context.system_bus_policy, <<>>)

(* the a11y list, filled when org.a11y.Bus answers GetAddress *)
a11y_bus_proxy_args(flags, address) ==
  IF "NO_A11Y_BUS_PROXY" \in flags \/ ~address THEN <<>>
  ELSE << <<"unix:path=/a11y">>, <<"a11y-bus-proxy">>, <<"--filter">>,
          <<"--sloppy-names">> >>

(* The part of flatpak_run_add_environment_args before the transient unit:
   namespace and device options, the exports, the persistent binds and the
   three proxy argument lists.  bus: which buses the host offers. *)
(* the directives and proxy argument lists flatpak_run_add_environment_args
   leaves, given what export_paths_export_context reported and the planner
   after the two calls that follow it *)
(* a namespace is unshared only when both shares are missing *)
unshare_args_all_or_nothing(context) ==
  IF context.shares = {}
  THEN << Arg0("--unshare-ipc"), Arg0("--unshare-net") >> ELSE <<>>

(* --unshare-ipc and --unshare-net, from context->shares *)
unshare_args(context) ==
  LET shared(name) == flatpak_context_bit(name, flatpak_context_shares) \in context.shares
  IN (IF ~shared("ipc") THEN << Arg0("--unshare-ipc") >> ELSE <<>>)
     \o (IF ~shared("network") THEN << Arg0("--unshare-net") >> ELSE <<>>)

environment_args(context, flags, bus, home_access_, planned) ==
  LET device(name) == flatpak_context_bit(name, flatpak_context_devices) \in context.devices
  IN [argv |->
        unshare_args(context)
        \o (IF device("all")
            THEN << Arg2("--dev-bind", <<"/", "dev">>, <<"/", "dev">>) >>
            ELSE << Arg2("--dev", <<>>, <<"/", "dev">>) >>)
        \o (IF ~home_access_
            THEN persistent_binds(g_hash_table_get_keys_as_array(DOMAIN context.persistent))
            ELSE <<>>)
        \o exports_add_bwrap_args(planned),
      exports |-> planned,
      home_access |-> home_access_,
      session_bus_proxy_argv |-> session_bus_proxy_args(context, flags, "session" \in bus),
      system_bus_proxy_argv |-> system_bus_proxy_args(context, flags, "system" \in bus),
      a11y_bus_proxy_argv |-> a11y_bus_proxy_args(flags, "a11y" \in bus)]

(* the planner after the flatpak directory was hidden and the home directory
   made sure to exist *)
environment_args_planned(context, flags, bus, composed) ==
  environment_args(
    context, flags, bus, composed.home_access,
    exports_calls(composed.exports,
                  << ExportCall(FAKE_MODE_TMPFS,
                                g_get_home_dir \o <<".local", "share", "flatpak">>),
                     ExportCall(FAKE_MODE_DIR, g_get_home_dir) >>))

flatpak_run_add_environment_args(context, flags, app_id_dir, bus) ==
  environment_args_planned(
    context, flags, bus,
    export_paths_export_context(context, exports_new, app_id_dir))

has_args(arglist) == Len(arglist) > 0

(* ---------------------------------------------------------------------- *)
(* add_rest_args                                                           *)
(* ---------------------------------------------------------------------- *)
(* An argument is a token sequence: <<"@@">>, <<"@@u">>, an absolute path
   <<"/", "home", "u", "f">>, a relative path <<"other.txt">>, a URI
   <<"file:", "/", "home", "u", "f">>, an option <<"--new-window">>. *)

(* the working directory of the launcher *)
g_get_current_dir == <<"/", "home">>

(* where the document portal is mounted *)
doc_mount_path == <<"/", "run", "user", "doc">>

(* g_file_new_for_path: a relative path is resolved against the working
   directory, and the result is canonical *)
g_file_new_for_path(arg) ==
  IF g_path_is_absolute(arg) THEN flatpak_canonicalize_filename(arg)
  ELSE flatpak_canonicalize_filename(g_build_filename(g_get_current_dir, arg))

(* g_file_new_for_uri of a file: URI *)
g_file_new_for_uri(arg) == flatpak_canonicalize_filename(Tail(arg))

g_filename_to_uri(path) == <<"file:">> \o path

g_file_get_basename(file) == <<file[Len(file)]>>

is_marker_path_only(arg) == arg = <<"@@">>

(* strcmp (args[i], "@@") == 0 || strcmp (args[i], "@@u") == 0 *)
is_marker(arg) == arg = <<"@@">> \/ arg = <<"@@u">>

(* the GFile the loop body builds for args[i], <<>> for NULL *)
rest_arg_file_absolute_only(arg, can_forward, forwarding, forwarding_uri) ==
  IF ~(can_forward /\ forwarding) THEN <<>>
  ELSE IF forwarding_uri
  THEN (IF g_str_has_prefix(arg, "file:") THEN g_file_new_for_uri(arg)
        ELSE IF g_path_is_absolute(arg) THEN g_file_new_for_path(arg)
        ELSE <<>>)
  ELSE IF g_path_is_absolute(arg) THEN g_file_new_for_path(arg)
  ELSE <<>>

rest_arg_file(arg, can_forward, forwarding, forwarding_uri) ==
  IF ~(can_forward /\ forwarding) THEN <<>>
  ELSE IF forwarding_uri
  THEN (IF g_str_has_prefix(arg, "file:") THEN g_file_new_for_uri(arg)
        ELSE IF g_path_is_absolute(arg) THEN g_file_new_for_path(arg)
        ELSE <<>>)
  ELSE g_file_new_for_path(arg)

(* forward_file: open (file, O_PATH) and the two portal calls; the portal
   answers with a document id when portal_ok *)
forward_file(file, portal_ok) ==
  IF ~g_file_test_exists(file) \/ ~portal_ok THEN [ok |-> FALSE, doc_id |-> <<>>]
  ELSE [ok |-> TRUE, doc_id |-> <<"doc-id">>]

(* The loop of add_rest_args from args[i] on.  st holds the loop's state:
   forwarding, forwarding_uri, the argv built so far, the files forward_file
   was called for, and ok (FALSE once forward_file failed). *)
RECURSIVE add_rest_args_from(_, _, _, _, _, _, _)
add_rest_args_from(ex, file_forwarding, can_forward, portal_ok, args_, i, st) ==
  IF i > Len(args_) \/ ~st.ok THEN st
  ELSE LET arg == args_[i]
       IN IF file_forwarding /\ is_marker(arg)
          THEN add_rest_args_from(
                 ex, file_forwarding, can_forward, portal_ok, args_, i + 1,
                 [st EXCEPT !.forwarding_uri = (arg = <<"@@u">>),
                            !.forwarding = ~st.forwarding])
          ELSE LET file == rest_arg_file(arg, can_forward, st.forwarding,
                                         st.forwarding_uri)
               IN IF file # <<>> /\ ~flatpak_exports_path_is_visible(ex, file)
                  THEN LET f == forward_file(file, portal_ok)
                           doc_path == doc_mount_path \o f.doc_id
                                         \o g_file_get_basename(file)
                       IN IF ~f.ok
                          THEN [st EXCEPT !.ok = FALSE, !.forwarded = Append(@, file)]
                          ELSE add_rest_args_from(
                                 ex, file_forwarding, can_forward, portal_ok, args_, i + 1,
                                 [st EXCEPT !.argv = Append(@,
                                               IF st.forwarding_uri
                                               THEN g_filename_to_uri(doc_path)
                                               ELSE doc_path),
                                            !.forwarded = Append(@, file)])
                  ELSE add_rest_args_from(
                         ex, file_forwarding, can_forward, portal_ok, args_, i + 1,
                         [st EXCEPT !.argv = Append(@, arg)])

(* portal: "none" when the mount path is unknown (doc_mount_path == NULL),
   "unreachable" when the Documents proxy cannot be created, "failing" when
   its calls fail, "ok" otherwise *)
add_rest_args(ex, file_forwarding, portal, args_) ==
  add_rest_args_from(ex, file_forwarding,
                     ~(file_forwarding /\ portal \in {"none", "unreachable"}),
                     portal = "ok", args_, 1,
                     [ok |-> TRUE, forwarding |-> FALSE, forwarding_uri |-> FALSE,
                      argv |-> <<>>, forwarded |-> <<>>])

(* ---------------------------------------------------------------------- *)
(* flatpak_run_app                                                         *)
(* ---------------------------------------------------------------------- *)
(* The calls of flatpak_run_app in program order, with the two waits inside
   them: g_spawn_sync of the nested ldconfig in regenerate_ld_cache, and the
   read from the sync pipe in add_dbus_proxy_args.  The transient unit and
   the proxy are started by flatpak_run_add_environment_args. *)
flatpak_run_app_steps_scope_late ==
  << "regenerate_ld_cache", "ldconfig", "setup_base_argv", "add_app_info_args",
     "add_environment_args", "add_dbus_proxy_args", "sync_with_proxy",
     "run_in_transient_unit", "add_rest_args", "exec" >>

flatpak_run_app_steps ==
  << "regenerate_ld_cache", "ldconfig", "setup_base_argv", "add_app_info_args",
     "add_environment_args", "run_in_transient_unit", "add_dbus_proxy_args",
     "sync_with_proxy", "add_rest_args", "exec" >>

(* the step after step s *)
StepAfter(s) ==
  flatpak_run_app_steps[
    (CHOOSE i \in 1..Len(flatpak_run_app_steps) : flatpak_run_app_steps[i] = s) + 1]

(* The locals of flatpak_run_app once the deploys are found, the effective
   Context is computed and the checksum of the ld.so cache is known.  in
   holds the parameters and what the host offers. *)
flatpak_run_app_enter(in) ==
  [app_id_dir |-> in.app_id_dir,
   flags |-> in.flags,
   app_context |-> in.app_context,
   args |-> in.args,
   bus |-> in.bus,
   portal |-> in.portal,
   socket_filtering |-> in.socket_filtering,
   checksum |-> calculate_ld_cache_checksum(in.app_commit, in.runtime_commit,
                                            in.app_extensions, in.runtime_extensions),
   ld_so_fd |-> -1,
   ld_so_cache_bind |-> -1,
   seccomp |-> <<>>,
   argv_array |-> <<>>,
   exports |-> exports_new,
   session_bus_proxy_argv |-> <<>>,
   system_bus_proxy_argv |-> <<>>,
   a11y_bus_proxy_argv |-> <<>>,
   real_argv_array |-> <<>>,
   forwarded |-> <<>>,
   syscalls |-> <<>>,
   fds |-> {},
   fd_array |-> {},
   sources |-> IF "sources" \in DOMAIN in THEN in.sources ELSE <<>>]

(* flatpak_run_app is entered *)
Enter(in) ==
  /\ pc \in {"idle", "failed", "running", "returned"}
  /\ prev' = IF pc = "idle" THEN prev
             ELSE [checksum |-> run.checksum, app_id_dir |-> run.app_id_dir,
                   ld_so_fd |-> run.ld_so_fd]
  /\ run' = flatpak_run_app_enter(in)
  /\ events' = <<>>
  /\ pc' = flatpak_run_app_steps[1]
  /\ UNCHANGED <<ld_so_dir, ctxvars, xvars>>

(* Descriptors the launcher holds for the sandbox: fds is the set of those
   that are open, fd_array the ones appended to fd_array.  add_args_data_fd
   appends to fd_array only when it is given one. *)
fds_opened(locals, opened, tracked) ==
  [locals EXCEPT !.fds = @ \cup opened,
                 !.fd_array = IF tracked THEN @ \cup opened ELSE @]

(* close (fd) for each fd of closed *)
fds_closed(locals, closed) == [locals EXCEPT !.fds = @ \ closed]

(* flatpak_run_app returns: the g_autoptr(GArray) fd_array is released and
   clear_fd closes every descriptor appended to it *)
clear_fd_array(locals) ==
  [locals EXCEPT !.fds = @ \ locals.fd_array, !.fd_array = {}]

(* both ends of the pipe made by add_dbus_proxy_args *)
sync_fds == {"sync_fds_0", "sync_fds_1"}

(* a step returns an error: flatpak_run_app returns FALSE *)
ReturnError(what) ==
  /\ pc' = "failed"
  /\ events' = events \o <<what, "error">>

(* a step is done: on to the next one *)
Continue(s, what) ==
  /\ pc' = StepAfter(s)
  /\ events' = events \o what

(* regenerate_ld_cache up to g_spawn_sync.  A failed flatpak_mkdir_p makes it
   return FALSE, which its caller reads as descriptor 0. *)
RegenerateLdCache ==
  /\ pc = "regenerate_ld_cache"
  /\ LET fd == ld_so_cache_open(ld_so_dir, run.app_id_dir, run.checksum)
     IN \/ /\ fd >= 0
           /\ run' = fds_opened([run EXCEPT !.ld_so_fd = fd], {"ld_so_cache"}, TRUE)
           /\ Continue("ldconfig", <<"ld_cache_found", "regenerate_ld_cache">>)
        \/ /\ fd < 0
           /\ \E outcome \in {"mkdir_failed", "ld_so_conf_failed", "spawn"} :
                \/ /\ outcome = "mkdir_failed"
                   /\ run' = [run EXCEPT !.ld_so_fd = 0]
                   /\ Continue("ldconfig", <<"mkdir_failed", "regenerate_ld_cache">>)
                \/ /\ outcome = "ld_so_conf_failed"
                   /\ run' = clear_fd_array(run)
                   /\ ReturnError("regenerate_ld_cache")
                \/ /\ outcome = "spawn"
                   /\ run' = run
                   /\ Continue("regenerate_ld_cache", <<>>)
  /\ UNCHANGED <<ld_so_dir, prev, ctxvars, xvars>>

(* g_spawn_sync returns: the nested ldconfig could not be started, or it ran
   and exited; then the rest of regenerate_ld_cache *)
Ldconfig ==
  /\ pc = "ldconfig"
  /\ \E spawned \in BOOLEAN, exit_status \in {0, 1}, wrote \in BOOLEAN,
        switched \in BOOLEAN :
       LET dirs == IF spawned /\ wrote
                   THEN ldconfig_wrote(ld_so_dir, run.app_id_dir, run.checksum)
                   ELSE ld_so_dir
           done == regenerate_ld_cache_finish(
                     dirs, run.app_id_dir, run.checksum,
                     ld_so_cache_open(dirs, run.app_id_dir, run.checksum) >= 0,
                     switched)
       IN IF ~spawned
          THEN /\ ReturnError("ldconfig_not_spawned")
               /\ run' = clear_fd_array(run)
               /\ UNCHANGED ld_so_dir
          ELSE IF exit_status # 0
          THEN /\ pc' = "failed"
               /\ events' = events \o <<"ldconfig", "ldconfig_exited", "error">>
               /\ ld_so_dir' = dirs
               /\ run' = clear_fd_array(run)
          ELSE /\ ld_so_dir' = done.dirs
               /\ run' = IF done.fd = -1
                         THEN clear_fd_array([run EXCEPT !.ld_so_fd = done.fd])
                         ELSE fds_opened([run EXCEPT !.ld_so_fd = done.fd],
                                         {"ld_so_cache"}, TRUE)
               /\ IF done.fd = -1
                  THEN /\ pc' = "failed"
                       /\ events' = events \o <<"ldconfig", "ldconfig_exited", "error">>
                  ELSE Continue("ldconfig",
                                <<"ldconfig", "ldconfig_exited", "regenerate_ld_cache">>)
  /\ UNCHANGED <<prev, ctxvars, xvars>>

(* lines 5296-5303, then flatpak_run_setup_base_argv, which passes the
   passwd and group payloads and ends with setup_seccomp, then add_ld_so_conf and, for ld_so_fd != -1, the argument
   --ro-bind-data <ld_so_fd> /etc/ld.so.cache (ld_so_cache_bind is the
   descriptor it names, -1 without the argument) *)
SetupBaseArgv ==
  /\ pc = "setup_base_argv"
  /\ \E ok \in BOOLEAN :
       LET features == run.app_context.features
           flags == run.flags
                    \cup (IF flatpak_context_bit("devel", flatpak_context_features)
                               \in features
                          THEN {"DEVEL"} ELSE {})
                    \cup (IF flatpak_context_bit("multiarch", flatpak_context_features)
                               \in features
                          THEN {"MULTIARCH"} ELSE {})
       IN IF ok
          THEN /\ run' = fds_opened(
                           [run EXCEPT !.flags = flags,
                                       !.seccomp = setup_seccomp("PER_LINUX",
                                                                 "DEVEL" \in flags,
                                                                 run.socket_filtering),
                                       !.ld_so_cache_bind = run.ld_so_fd],
                           {"passwd", "group", "seccomp"}, TRUE)
               /\ Continue("setup_base_argv", <<"setup_base_argv">>)
          ELSE /\ run' = clear_fd_array([run EXCEPT !.flags = flags])
               /\ ReturnError("setup_base_argv")
  /\ UNCHANGED <<ld_so_dir, prev, ctxvars, xvars>>

(* flatpak_run_add_app_info_args writes the key file and passes descriptors
   of it as /.flatpak-info *)
AddAppInfoArgs ==
  /\ pc = "add_app_info_args"
  /\ \E ok \in BOOLEAN :
       IF ok
       THEN /\ run' = fds_opened(run, {"flatpak_info", "flatpak_info_bind"}, TRUE)
            /\ Continue("add_app_info_args", <<"flatpak_info">>)
       ELSE /\ run' = clear_fd_array(run)
            /\ ReturnError("add_app_info_args")
  /\ UNCHANGED <<ld_so_dir, prev, ctxvars, xvars>>

(* flatpak_run_add_environment_args up to flatpak_run_in_transient_unit *)
environment_args_set(locals, r) ==
  [locals EXCEPT !.argv_array = r.argv,
                 !.exports = r.exports,
                 !.session_bus_proxy_argv = r.session_bus_proxy_argv,
                 !.system_bus_proxy_argv = r.system_bus_proxy_argv,
                 !.a11y_bus_proxy_argv = r.a11y_bus_proxy_argv]

AddEnvironmentArgs ==
  /\ pc = "add_environment_args"
  /\ run' = environment_args_set(
               run, flatpak_run_add_environment_args(run.app_context, run.flags,
                                                     run.app_id_dir, run.bus))
  /\ Continue("add_environment_args", <<"add_environment_args">>)
  /\ UNCHANGED <<ld_so_dir, prev, ctxvars, xvars>>

(* flatpak_run_in_transient_unit; its result is ignored and the launch goes
   on when it fails *)
RunInTransientUnit ==
  /\ pc = "run_in_transient_unit"
  /\ Continue("run_in_transient_unit", <<"transient_unit">>)
  /\ UNCHANGED <<run, ld_so_dir, prev, ctxvars, xvars>>

(* the descriptors of the sync pipe still open when add_dbus_proxy_args
   leaves with outcome: a failed pipe () made none, a failed g_spawn_async
   closes both, the returns at 4281 and 4285 close neither *)
proxy_sync_fds(outcome) ==
  IF outcome \in {"pipe_failed", "spawn_failed"} THEN {} ELSE sync_fds

(* add_dbus_proxy_args up to the read from the sync pipe; --sync-fd is added
   with add_args_data_fd (argv_array, NULL, ...) *)
AddDbusProxyArgs ==
  /\ pc = "add_dbus_proxy_args"
  /\ IF ~has_args(run.session_bus_proxy_argv)
        /\ ~has_args(run.system_bus_proxy_argv)
        /\ ~has_args(run.a11y_bus_proxy_argv)
     THEN /\ run' = run
          /\ Continue("sync_with_proxy", <<"add_dbus_proxy_args">>)
     ELSE \E outcome \in {"pipe_failed", "open_app_info_failed", "wrapper_failed",
                          "spawn_failed", "spawned"} :
            IF outcome = "spawned"
            THEN /\ run' = fds_opened(run, proxy_sync_fds(outcome), FALSE)
                 /\ Continue("add_dbus_proxy_args", <<"proxy_spawned">>)
            ELSE /\ run' = clear_fd_array(
                             fds_opened(run, proxy_sync_fds(outcome), FALSE))
                 /\ ReturnError(outcome)
  /\ UNCHANGED <<ld_so_dir, prev, ctxvars, xvars>>

sync_read_not_failed(n) == n # -1

(* read (sync_fds[0], &x, 1) != 1 is the failure *)
sync_read_ok(n) == n = 1

(* read (sync_fds[0], &x, 1) returns n; a failed read closes both ends, and
   after a good one flatpak_run_add_environment_args closes sync_fds[1] *)
SyncWithProxy ==
  /\ pc = "sync_with_proxy"
  /\ \E n \in {-1, 0, 1} :
       LET got == IF n = 1 THEN "sync_read_1"
                  ELSE IF n = 0 THEN "sync_read_0" ELSE "sync_read_failed"
       IN IF sync_read_ok(n)
          THEN /\ run' = fds_closed(run, {"sync_fds_1"})
               /\ Continue("sync_with_proxy", <<got, "add_dbus_proxy_args">>)
          ELSE /\ run' = clear_fd_array(fds_closed(run, sync_fds))
               /\ ReturnError(got)
  /\ UNCHANGED <<ld_so_dir, prev, ctxvars, xvars>>

(* the sealed bwrap-args payload and the command, then add_rest_args *)
AddRestArgs ==
  /\ pc = "add_rest_args"
  /\ LET r == add_rest_args(run.exports, "FILE_FORWARDING" \in run.flags,
                            run.portal, run.args)
     IN IF r.ok
        THEN /\ run' = fds_opened(
                         [run EXCEPT !.real_argv_array = <<<<"command">>>> \o r.argv,
                                     !.forwarded = r.forwarded],
                         {"bwrap_args"}, TRUE)
             /\ Continue("add_rest_args", <<"add_rest_args">>)
        ELSE /\ run' = clear_fd_array(
                         fds_opened([run EXCEPT !.forwarded = r.forwarded],
                                    {"bwrap_args"}, TRUE))
             /\ ReturnError("add_rest_args")
  /\ UNCHANGED <<ld_so_dir, prev, ctxvars, xvars>>

(* g_spawn_async (background), after which flatpak_run_app returns, or
   execvpe of the sandbox helper *)
Exec ==
  /\ pc = "exec"
  /\ \E ok \in BOOLEAN :
       IF ok
       THEN /\ pc' = IF "BACKGROUND" \in run.flags THEN "returned" ELSE "running"
            /\ events' = Append(events, "sbx")
            /\ run' = IF "BACKGROUND" \in run.flags THEN clear_fd_array(run) ELSE run
       ELSE /\ run' = clear_fd_array(run)
            /\ ReturnError("exec")
  /\ UNCHANGED <<ld_so_dir, prev, ctxvars, xvars>>

LaunchSteps ==
  \/ RegenerateLdCache \/ Ldconfig \/ SetupBaseArgv \/ AddAppInfoArgs
  \/ AddEnvironmentArgs \/ RunInTransientUnit \/ AddDbusProxyArgs
  \/ SyncWithProxy \/ AddRestArgs \/ Exec

(* ---------------------------------------------------------------------- *)
(* Launches of one application, one after the other                        *)
(* ---------------------------------------------------------------------- *)
(* the Context of an application whose metadata names bus policies *)
AppContext == flatpak_context_load_metadata(flatpak_context_new, MetaApp).c

RunInputs ==
  { [app_id_dir |-> a,
     app_commit |-> IF a THEN c ELSE <<>>,
     runtime_commit |-> <<"r1">>,
     app_extensions |-> IF a THEN e ELSE <<>>,
     runtime_extensions |-> <<>>,
     flags |-> f,
     app_context |-> x,
     args |-> <<>>,
     bus |-> b,
     portal |-> "none",
     socket_filtering |-> TRUE] :
       a \in BOOLEAN, c \in {<<"c1">>, <<"c2">>}, e \in {<<>>, <<"e1">>},
       f \in {{}, {"BACKGROUND"}}, x \in {flatpak_context_new, AppContext},
       b \in {{}, {"session", "a11y"}} }

(* one launch on a fresh host *)
StartRun == pc = "idle" /\ \E in \in RunInputs : Enter(in)

NextRun == StartRun \/ LaunchSteps

SpecRun == Init /\ [][NextRun]_vars

(* Launch after launch on the same host: what a launch leaves in the ld.so
   cache directories is what the next one finds. *)
CacheInputs ==
  { [app_id_dir |-> a,
     app_commit |-> IF a THEN c ELSE <<>>,
     runtime_commit |-> <<"r1">>,
     app_extensions |-> IF a THEN e ELSE <<>>,
     runtime_extensions |-> <<>>,
     flags |-> {},
     app_context |-> flatpak_context_new,
     args |-> <<>>,
     bus |-> {"session"},
     portal |-> "none",
     socket_filtering |-> TRUE] :
       a \in BOOLEAN, c \in {<<"c1">>, <<"c2">>}, e \in {<<>>, <<"e1">>} }

StartCache == \E in \in CacheInputs : Enter(in)

NextCache == StartCache \/ LaunchSteps

SpecCache == Init /\ [][NextCache]_vars

(* ---------------------------------------------------------------------- *)
(* Launches with arguments for the command                                 *)
(* ---------------------------------------------------------------------- *)
MaxArgs == 3

(* the two markers, an absolute path, a relative path of an existing file
   (/home/u/f from the working directory), a relative path of no file, and a
   file: URI *)
RestArgs ==
  { <<"@@">>, <<"@@u">>,
    <<"/", "home", "u", "f">>,
    <<"u", "f">>,
    <<"other.txt">>,
    <<"file:", "/", "home", "u", "f">> }

ArgLists == UNION { [1..n -> RestArgs] : n \in 0..MaxArgs }

ForwardInputs ==
  { [app_id_dir |-> TRUE,
     app_commit |-> <<"c1">>,
     runtime_commit |-> <<"r1">>,
     app_extensions |-> <<>>,
     runtime_extensions |-> <<>>,
     flags |-> f,
     app_context |-> x,
     args |-> a,
     bus |-> {"session"},
     portal |-> d,
     socket_filtering |-> TRUE] :
       f \in {{"FILE_FORWARDING"}},
       x \in { flatpak_context_new,
               flatpak_context_add_filesystem(flatpak_context_new, <<"home">>) },
       a \in ArgLists,
       d \in {"none", "ok"} }

StartForward == pc = "idle" /\ \E in \in ForwardInputs : Enter(in)

NextForward == StartForward \/ LaunchSteps

SpecForward == Init /\ [][NextForward]_vars

(* ---------------------------------------------------------------------- *)
(* Launches under Contexts with filesystem grants and persistent paths     *)
(* ---------------------------------------------------------------------- *)
(* the Context after --filesystem=<name><g>, --nofilesystem=<name>, or
   neither *)
WithFilesystem(c, name, g) ==
  IF g = "absent" THEN c
  ELSE IF g = "denied" THEN flatpak_context_remove_filesystem(c, name)
  ELSE flatpak_context_add_filesystem(c, name \o <<g>>)

RECURSIVE WithPersistent(_, _)
WithPersistent(c, paths) ==
  IF paths = <<>> THEN c
  ELSE WithPersistent(flatpak_context_set_persistent(c, Head(paths)), Tail(paths))

EnvContexts ==
  { WithPersistent(
      WithFilesystem(
        WithFilesystem(
          WithFilesystem(flatpak_context_new, <<"host">>, h),
          <<"home">>, m),
        <<"/", "home", "u">>, u),
      ps) :
      h \in {"absent", "denied", ":ro", ":rw"},
      m \in {"absent", "denied", ":ro", ":create"},
      u \in {"absent", ":rw"},
      ps \in { <<>>, << <<".p">> >>, << <<".p">>, <<".q">> >> } }

EnvInputs ==
  { [app_id_dir |-> a,
     app_commit |-> <<"c1">>,
     runtime_commit |-> <<"r1">>,
     app_extensions |-> <<>>,
     runtime_extensions |-> <<>>,
     flags |-> {},
     app_context |-> x,
     args |-> <<>>,
     bus |-> {"session"},
     portal |-> "none",
     socket_filtering |-> TRUE] :
       a \in BOOLEAN, x \in EnvContexts }

StartEnv == pc = "idle" /\ \E in \in EnvInputs : Enter(in)

NextEnv == StartEnv \/ LaunchSteps

SpecEnv == Init /\ [][NextEnv]_vars

(* ---------------------------------------------------------------------- *)
(* Launches under Contexts that grant paths in the per-app data parent     *)
(* ---------------------------------------------------------------------- *)
(* <home>/.var/app and the data directory of another application in it, as
   filesystem keys *)
AppsDirKey == <<"~/", ".var", "app">>
OtherAppKey == <<"~/", ".var", "app", "org.other">>

DataContexts ==
  { WithFilesystem(
      WithFilesystem(
        WithFilesystem(
          WithFilesystem(flatpak_context_new, <<"host">>, h),
          <<"home">>, m),
        AppsDirKey, p),
      OtherAppKey, o) :
      h \in {"absent", ":ro", ":rw"},
      m \in {"absent", "denied", ":ro", ":rw"},
      p \in {"absent", ":ro"},
      o \in {"absent", ":ro"} }

DataInputs ==
  { [app_id_dir |-> a,
     app_commit |-> <<"c1">>,
     runtime_commit |-> <<"r1">>,
     app_extensions |-> <<>>,
     runtime_extensions |-> <<>>,
     flags |-> {},
     app_context |-> x,
     args |-> <<>>,
     bus |-> {"session"},
     portal |-> "none",
     socket_filtering |-> TRUE] :
       a \in BOOLEAN, x \in DataContexts }

StartData == \E in \in DataInputs : pc = "idle" /\ Enter(in)

NextData == StartData \/ LaunchSteps

SpecData == Init /\ [][NextData]_vars

(* ---------------------------------------------------------------------- *)
(* The effective Context of a launch                                       *)
(* ---------------------------------------------------------------------- *)
add_default_permissions(app_context) ==
  flatpak_context_set_session_bus_policy(
     app_context, <<"org.freedesktop.portal", ".*">>, FLATPAK_POLICY_TALK)

(* A GKeyFile pointer is <<>> (NULL) or <<mk>>; the result is [ok, c], ok
   FALSE standing for the NULL the function returns on a load error. *)
flatpak_app_compute_permissions_app_first(app_metadata, runtime_metadata) ==
  LET c0 == add_default_permissions(flatpak_context_new)
      r1 == CHOOSE r \in { IF app_metadata # <<>>
                           THEN flatpak_context_load_metadata(c0, app_metadata[1])
                           ELSE Ok(c0) } : TRUE
  IN IF ~r1.ok THEN r1
     ELSE IF runtime_metadata # <<>>
     THEN CHOOSE r \in { flatpak_context_load_metadata(r1.c, runtime_metadata[1]) } : TRUE
     ELSE r1

flatpak_app_compute_permissions(app_metadata, runtime_metadata) ==
  LET c0 == add_default_permissions(flatpak_context_new)
      r1 == CHOOSE r \in { IF runtime_metadata # <<>>
                           THEN flatpak_context_load_metadata(c0, runtime_metadata[1])
                           ELSE Ok(c0) } : TRUE
  IN IF ~r1.ok THEN r1
     ELSE IF app_metadata # <<>>
     THEN CHOOSE r \in { flatpak_context_load_metadata(r1.c, app_metadata[1]) } : TRUE
     ELSE r1

(* flatpak_run_app from the call of flatpak_app_compute_permissions to the
   merge of extra_context.  app_metakey (the local metakey) is NULL exactly
   when there is no app_deploy; overrides is what flatpak_deploy_get_overrides
   returns; extra_context is <<>> (NULL) or <<context>>. *)
flatpak_run_app_context(app_metakey, runtime_metakey, overrides, extra_context) ==
  LET r == CHOOSE x \in { flatpak_app_compute_permissions(app_metakey, runtime_metakey) } : TRUE
      c1 == CHOOSE x \in { IF app_metakey # <<>>
                           THEN flatpak_context_merge(r.c, overrides)
                           ELSE r.c } : TRUE
  IN IF ~r.ok THEN r
     ELSE Ok(IF extra_context # <<>>
             THEN flatpak_context_merge(c1, extra_context[1]) ELSE c1)

(* metadata of a runtime *)
MetaRuntime ==
  [context |-> ( "shared" :> << <<"ipc">> >>
              @@ "devices" :> << <<"dri">> >>
              @@ "filesystems" :> << <<"host">> >> ),
   session |-> ( <<"org.a">> :> <<"talk">> @@ <<"org.b">> :> <<"see">> ),
   system |-> g_hash_table_new,
   env |-> ( <<"K">> :> <<"V">> @@ <<"L">> :> <<"X">> ),
   policy |-> g_hash_table_new]

(* metadata of an app that shares everything and owns a bus name *)
MetaShares ==
  [context |-> ( "shared" :> << <<"network">>, <<"ipc">> >> ),
   session |-> ( <<"org.b">> :> <<"own">> ),
   system |-> g_hash_table_new,
   env |-> g_hash_table_new,
   policy |-> g_hash_table_new]

(* the Contexts of override files and of the caller *)
PermContexts ==
  { flatpak_context_new,
    flatpak_context_load_metadata(flatpak_context_new, MetaOverride).c,
    flatpak_context_remove_shares(flatpak_context_new, {0}),
    flatpak_context_set_session_bus_policy(
       flatpak_context_add_shares(flatpak_context_new, {0, 1}),
       <<"org.b">>, FLATPAK_POLICY_NONE) }

PermSources ==
  { [metakey |-> a, runtime_metakey |-> <<r>>, overrides |-> o,
     extra_context |-> x] :
       a \in { <<>>, <<MetaApp>>, <<MetaShares>>, <<MetaBad>> },
       r \in { g_key_file_new, MetaRuntime },
       o \in PermContexts,
       x \in { <<>> } \cup { <<c>> : c \in PermContexts } }

(* the launch of the sources src; r is flatpak_run_app_context of them *)
PermInput(src, r) ==
  [app_id_dir |-> src.metakey # <<>>,
   app_commit |-> IF src.metakey # <<>> THEN <<"c1">> ELSE <<>>,
   runtime_commit |-> <<"r1">>,
   app_extensions |-> <<>>,
   runtime_extensions |-> <<>>,
   flags |-> {},
   app_context |-> r.c,
   args |-> <<>>,
   bus |-> {"session"},
   portal |-> "none",
   socket_filtering |-> TRUE,
   sources |-> src,
   computed |-> r.ok]

(* The effective Context reads the sources only: computed once per choice
   of sources. *)
PermInputs ==
  { PermInput(src, flatpak_run_app_context(src.metakey, src.runtime_metakey,
                                           src.overrides, src.extra_context)) :
      src \in PermSources }

(* flatpak_run_app is entered with the metadata of the deploys: it returns
   FALSE when the effective Context cannot be computed *)
StartPerms ==
  \E in \in PermInputs :
     /\ pc = "idle"
     /\ IF in.computed
        THEN Enter(in)
        ELSE /\ run' = flatpak_run_app_enter(in)
             /\ ReturnError("compute_permissions")
             /\ UNCHANGED <<prev, ld_so_dir, ctxvars, xvars>>

NextPerms == StartPerms \/ LaunchSteps

SpecPerms == Init /\ [][NextPerms]_vars

(* ---------------------------------------------------------------------- *)
(* The sandboxed program under the exported seccomp filter                 *)
(* ---------------------------------------------------------------------- *)
MaxSyscalls == 1

(* the address families the sandboxed program asks socket() for *)
SocketFamilies == AF_UNSPEC..(AF_NETLINK + 3)

(* system calls of the sandboxed program; a maps an argument index to the
   argument's value *)
SbxSyscalls ==
  { [scall |-> "socket", a |-> (0 :> fam @@ 1 :> 1)] : fam \in SocketFamilies }
  \cup { [scall |-> "ioctl", a |-> (0 :> 0 @@ 1 :> req)] :
            req \in {TIOCSTI - 1, TIOCSTI, TIOCSTI + 1} }
  \cup { [scall |-> sc, a |-> (0 :> 0 @@ 1 :> 0)] :
            sc \in {"ptrace", "perf_event_open", "mount", "getpid"} }

(* the sandboxed program makes a system call; the kernel runs the filter *)
Syscall ==
  /\ pc \in {"running", "returned"}
  /\ Len(run.syscalls) < MaxSyscalls
  /\ \E c \in SbxSyscalls :
       run' = [run EXCEPT !.syscalls =
                 Append(@, [scall |-> c.scall, a |-> c.a,
                            action |-> seccomp_action(run.seccomp, c.scall, c.a)])]
  /\ UNCHANGED <<pc, events, ld_so_dir, prev, ctxvars, xvars>>

SeccompInputs ==
  { [app_id_dir |-> TRUE,
     app_commit |-> <<"c1">>,
     runtime_commit |-> <<"r1">>,
     app_extensions |-> <<>>,
     runtime_extensions |-> <<>>,
     flags |-> f,
     app_context |-> x,
     args |-> <<>>,
     bus |-> {"session"},
     portal |-> "none",
     socket_filtering |-> k] :
       f \in {{}, {"DEVEL"}},
       x \in { flatpak_context_new,
               flatpak_context_add_features(
                 flatpak_context_new,
                 {flatpak_context_bit("devel", flatpak_context_features)}),
               flatpak_context_remove_features(
                 flatpak_context_new,
                 {flatpak_context_bit("devel", flatpak_context_features)}),
               flatpak_context_add_features(
                 flatpak_context_new,
                 {flatpak_context_bit("multiarch", flatpak_context_features)}) },
       k \in BOOLEAN }

StartSeccomp == pc = "idle" /\ \E in \in SeccompInputs : Enter(in)

NextSeccomp == StartSeccomp \/ LaunchSteps \/ Syscall

SpecSeccomp == Init /\ [][NextSeccomp]_vars

(***************************************************************************)
(* Properties of the Context                                               *)
(***************************************************************************)
BitsetKinds ==
  { [enabled |-> "shares", valid |-> "shares_valid", key |-> "shared",
     names |-> flatpak_context_shares],
    [enabled |-> "sockets", valid |-> "sockets_valid", key |-> "sockets",
     names |-> flatpak_context_sockets],
    [enabled |-> "devices", valid |-> "devices_valid", key |-> "devices",
     names |-> flatpak_context_devices],
    [enabled |-> "features", valid |-> "features_valid", key |-> "features",
     names |-> flatpak_context_features] }

MapFields ==
  { "env_vars", "persistent", "filesystems", "session_bus_policy",
    "system_bus_policy" }

KeyList(mk, key) == IF key \in DOMAIN mk.context THEN mk.context[key] ELSE <<>>

Elements(l) == { l[n] : n \in 1..Len(l) }

Negated(v) == Len(v) >= 1 /\ v[1] = "!"

\* C1: loading the non-flattened serialisation of any Context into a fresh
\* Context gives back that Context, field for field.
C1_SaveLoadRoundTrip ==
  \A i \in DOMAIN ctx :
     LET r == flatpak_context_load_metadata(
                 flatpak_context_new,
                 flatpak_context_save_metadata(ctx[i], FALSE))
     IN r.ok /\ r.c = ctx[i]

FlatPositive(l) == SelectSeq(l, LAMBDA v : ~Negated(v))

\* C2: the flattened serialisation of any Context has no negated entry; loaded
\* into a fresh Context it gives, for each bitset, enabled = valid = the
\* enabled-and-valid bits, and for each generic-policy key the non-negated
\* values in their order.
C2_FlattenedSerialisation ==
  \A i \in DOMAIN ctx :
     LET c == ctx[i]
         mk == flatpak_context_save_metadata(c, TRUE)
         r == flatpak_context_load_metadata(flatpak_context_new, mk)
     IN /\ \A key \in DOMAIN mk.context :
             \A v \in Elements(mk.context[key]) : ~Negated(v)
        /\ \A gk \in DOMAIN mk.policy :
             \A v \in Elements(mk.policy[gk]) : ~Negated(v)
        /\ r.ok
        /\ \A k \in BitsetKinds :
             /\ r.c[k.enabled] = c[k.enabled] \cap c[k.valid]
             /\ r.c[k.valid] = c[k.enabled] \cap c[k.valid]
        /\ DOMAIN r.c.generic_policy =
             { key \in DOMAIN c.generic_policy :
                  FlatPositive(c.generic_policy[key]) # <<>> }
        /\ \A key \in DOMAIN r.c.generic_policy :
             r.c.generic_policy[key] = FlatPositive(c.generic_policy[key])

\* a flattened save of a Context holding a denied share and a negated policy value
C2_Witness ==
  /\ last.op = "save-flat"
  /\ metakey = flatpak_context_save_metadata(ctx[last.self], TRUE)
  /\ ctx[last.self].shares_valid \ ctx[last.self].shares # {}
  /\ ctx[last.self].shares # {}
  /\ \E key \in DOMAIN ctx[last.self].generic_policy :
        /\ \E v \in Elements(ctx[last.self].generic_policy[key]) : Negated(v)
        /\ \E v \in Elements(ctx[last.self].generic_policy[key]) : ~Negated(v)

\* C3: the non-flattened serialisation lists every valid-but-disabled bit of
\* the four bitsets as a negated name and every denied filesystem as a negated
\* entry.
C3_NonFlattenedEmitsDenials ==
  \A i \in DOMAIN ctx :
     LET c == ctx[i]
         mk == flatpak_context_save_metadata(c, FALSE)
     IN /\ \A k \in BitsetKinds :
             \A b \in c[k.valid] \ c[k.enabled] :
                (<<"!">> \o <<k.names[b + 1]>>) \in Elements(KeyList(mk, k.key))
        /\ \A fs \in DOMAIN c.filesystems :
             c.filesystems[fs] = 0 =>
                (<<"!">> \o fs) \in Elements(KeyList(mk, "filesystems"))

\* C4: merge(self, other) leaves in self, for every bitset, the bits
\* (enabled and not valid in other) or enabled in other, with valid the union;
\* for every map, other's entries over self's; and leaves other unmodified.
C4_MergeEffect ==
  [][ (last'.op = "merge" /\ nops' = nops + 1) =>
        LET self == ctx[last'.self]
            other == ctx[last'.other]
            merged == ctx'[last'.self]
        IN /\ \A k \in BitsetKinds :
                /\ \A b \in 0..(Len(k.names) - 1) :
                      b \in merged[k.enabled] <=>
                         \/ (b \in self[k.enabled] /\ b \notin other[k.valid])
                         \/ b \in other[k.enabled]
                /\ merged[k.valid] = self[k.valid] \cup other[k.valid]
           /\ \A f \in MapFields :
                /\ DOMAIN merged[f] = DOMAIN self[f] \cup DOMAIN other[f]
                /\ \A key \in DOMAIN other[f] : merged[f][key] = other[f][key]
                /\ \A key \in DOMAIN self[f] \ DOMAIN other[f] :
                      merged[f][key] = self[f][key]
           /\ ctx'[last'.other] = other ]_vars

\* a merge whose other side denies a bit self also decides, into a Context
\* that grants bits and holds filesystem entries
C4_Witness ==
  /\ last.op = "merge"
  /\ \E k \in BitsetKinds :
        \E b \in ctx[last.other][k.valid] \ ctx[last.other][k.enabled] :
           b \notin ctx[last.self][k.enabled] /\ b \in ctx[last.self][k.valid]
  /\ \E k \in BitsetKinds : ctx[last.self][k.enabled] # {}
  /\ DOMAIN ctx[last.self].filesystems # {}

StrippedPolicy(c) ==
  [key \in DOMAIN c.generic_policy |->
     [n \in 1..Len(c.generic_policy[key]) |-> StripBang(c.generic_policy[key][n])]]

SameUpToBang(l, r) ==
  /\ \A k \in BitsetKinds : l[k.enabled] = r[k.enabled] /\ l[k.valid] = r[k.valid]
  /\ \A f \in MapFields : l[f] = r[f]
  /\ StrippedPolicy(l) = StrippedPolicy(r)

Associates(a, b, c) ==
  SameUpToBang(flatpak_context_merge(flatpak_context_merge(a, b), c),
               flatpak_context_merge(a, flatpak_context_merge(b, c)))

\* C5: merging is associative: merge(merge(A,B),C) and merge(A,merge(B,C))
\* agree on every bitset and map, and on the generic-policy lists compared
\* with the leading "!" stripped.
C5_MergeAssociative == Associates(ctx["A"], ctx["B"], ctx["C"])

\* three Contexts that each touch the same share, filesystem and policy key
C5_Witness ==
  /\ \A i \in AssocSlots : DOMAIN ctx[i].generic_policy # {}
  /\ ctx["A"].generic_policy # ctx["B"].generic_policy
  /\ ctx["B"].generic_policy # ctx["C"].generic_policy
  /\ \E i \in AssocSlots : ctx[i].shares_valid \ ctx[i].shares # {}
  /\ \E i \in AssocSlots : ctx[i].shares # {}

\* C6: in every Context, after any operation, each bitset's enabled bits are
\* among its valid bits.
C6_EnabledWithinValid ==
  \A i \in DOMAIN ctx :
     \A k \in BitsetKinds : ctx[i][k.enabled] \subseteq ctx[i][k.valid]

\* a merged Context holding both a granted and a denied share
C6_Witness ==
  /\ last.op = "merge"
  /\ ctx[last.self].shares # {}
  /\ ctx[last.self].shares_valid \ ctx[last.self].shares # {}

NoDuplicates(l) ==
  \A m, n \in 1..Len(l) : m # n => StripBang(l[m]) # StripBang(l[n])

PolicyList(c, key) ==
  IF key \in DOMAIN c.generic_policy THEN c.generic_policy[key] ELSE <<>>

Survivors(old_v, applied) ==
  SelectSeq(old_v, LAMBDA o :
     \A v \in Elements(applied) : StripBang(o) # StripBang(v))

\* C7: no generic-policy list ever holds two values equal after stripping a
\* leading "!"; after a value is applied it is the last of its list and the
\* other surviving values keep their relative order.
C7_GenericPolicyDedup ==
  /\ [](\A i \in DOMAIN ctx :
          \A key \in DOMAIN ctx[i].generic_policy :
             NoDuplicates(ctx[i].generic_policy[key]))
  /\ [][ /\ (last'.op \in {"add-policy", "remove-policy"} /\ last'.ok
               /\ nops' = nops + 1) =>
              LET t == strchr(last'.value, "=")
                  key == SubSeq(last'.value, 1, t - 1)
                  value == SubSeq(last'.value, t + 1, Len(last'.value))
                  applied == IF last'.op = "add-policy" THEN value
                             ELSE <<"!">> \o value
              IN PolicyList(ctx'[last'.self], key) =
                   Survivors(PolicyList(ctx[last'.self], key), <<applied>>)
                     \o <<applied>>
         /\ (last'.op = "merge" /\ nops' = nops + 1) =>
              \A key \in DOMAIN ctx[last'.other].generic_policy :
                 PolicyList(ctx'[last'.self], key) =
                   Survivors(PolicyList(ctx[last'.self], key),
                             ctx[last'.other].generic_policy[key])
                     \o ctx[last'.other].generic_policy[key] ]_vars

\* a value removed after two were added: the negation is last, the other kept
C7_Witness ==
  /\ last.op = "remove-policy"
  /\ last.ok
  /\ \E key \in DOMAIN ctx[last.self].generic_policy :
        LET l == ctx[last.self].generic_policy[key]
        IN Len(l) = 2 /\ ~Negated(l[1]) /\ Negated(l[2])

\* C8: every argument flatpak_context_to_args produces is an option of the
\* option table, and parsing the arguments into a fresh Context gives back
\* the Context.
C8_ToArgsRoundTrip ==
  \A i \in DOMAIN ctx :
     LET a == flatpak_context_to_args(ctx[i])
         r == flatpak_context_parse_args(Ok(flatpak_context_new), a)
     IN /\ \A n \in 1..Len(a) : a[n].opt \in context_options
        /\ r.ok
        /\ r.c = ctx[i]


(***************************************************************************)
(* Properties of the export planner                                        *)
(***************************************************************************)
(* the positions in the emitted argv e of the directives ops that mount p *)
DirectivesOf(e, p, ops) ==
  { n \in 1..Len(e) : e[n].op \in ops /\ e[n].dst = p }

Strongest(modes) == CHOOSE m \in modes : \A o \in modes : o <= m

(* p was exposed with a permission mode and no other exposed request
   resolves to the path p's walk records *)
ExposedOnItsOwn(p) ==
  /\ xmodes[p] # {}
  /\ \A q \in ExposePaths \ {p} :
        xmodes[q] # {} => expose_walks[q].final # expose_walks[p].final

HoldsStrongest(e, p) ==
  LET key == flatpak_canonicalize_filename(p)
      m == Strongest(xmodes[p])
  IN /\ key \in DOMAIN exports
     /\ exports[key] = m
     /\ Cardinality(DirectivesOf(e, key, {"--bind", "--ro-bind"})) = 1
     /\ DirectivesOf(e, key, {"--bind", "--ro-bind", "--symlink", "--dir", "--tmpfs"})
          = DirectivesOf(e, key, {IF m = FLATPAK_FILESYSTEM_MODE_READ_ONLY
                                  THEN "--ro-bind" ELSE "--bind"})

\* C9 as stated: for any path p, after successful expose(p, m_i) requests the
\* planner holds one entry for p whose mode is the strongest m_i, and emit
\* gives a single bind of p of that mode.
C9_AnyPath ==
  LET e == exports_add_bwrap_args(exports)
  IN \A p \in ExposePaths : ExposedOnItsOwn(p) => HoldsStrongest(e, p)

\* C9: for any path p whose walk meets no symlink to export, after successful
\* expose(p, m_i) requests the planner holds one entry for p whose mode is the
\* strongest m_i under readonly < readwrite < create, and emit gives a single
\* bind of p: read-only when the strongest is readonly, read-write otherwise.
C9_StrongestModeKept ==
  LET e == exports_add_bwrap_args(exports)
  IN \A p \in ExposePaths :
        (ExposedOnItsOwn(p) /\ expose_walks[p].links = <<>>) => HoldsStrongest(e, p)

\* a directory exposed read-write and then read-only
C9_Witness ==
  /\ xops = 2
  /\ xlast.op = "expose" /\ xlast.ok
  /\ xlast.mode = FLATPAK_FILESYSTEM_MODE_READ_ONLY
  /\ xmodes[xlast.path] =
       {FLATPAK_FILESYSTEM_MODE_READ_ONLY, FLATPAK_FILESYSTEM_MODE_READ_WRITE}
  /\ expose_walks[xlast.path].links = <<>>
  /\ exports[xlast.path] = FLATPAK_FILESYSTEM_MODE_READ_WRITE
  /\ DirectivesOf(exports_add_bwrap_args(exports), xlast.path, {"--bind"}) # {}

(* a step from expose(p, readonly) to tmpfs(p), p a directory *)
ExposedThenHidden ==
  /\ xlast.op = "expose" /\ xlast.ok
  /\ xlast.mode = FLATPAK_FILESYSTEM_MODE_READ_ONLY
  /\ xlast'.op = "tmpfs" /\ xlast'.ok
  /\ xlast'.path = xlast.path
  /\ path_is_dir(xlast.path)
  /\ xops' = xops + 1

\* C10 as stated: after expose(p, readonly) followed by tmpfs(p) the entry for
\* p has mode tmpfs and emit gives a tmpfs directive for p and no bind of p.
C10_TmpfsDominates ==
  [][ ExposedThenHidden =>
        LET e == exports_add_bwrap_args(exports')
        IN /\ exports'[xlast.path] = FAKE_MODE_TMPFS
           /\ DirectivesOf(e, xlast.path, {"--tmpfs", "--dir"}) # {}
           /\ DirectivesOf(e, xlast.path, {"--bind", "--ro-bind"}) = {} ]_vars

\* C10: after expose(p, readonly) followed by tmpfs(p) the entry for p keeps
\* the permission mode it had, and emit gives a bind of p (read-only when the
\* entry is readonly) and no tmpfs or dir directive for p.
C10_PermissionOutlastsTmpfs ==
  [][ ExposedThenHidden =>
        LET e == exports_add_bwrap_args(exports')
        IN /\ exports[xlast.path] \in PermissionModes
           /\ exports'[xlast.path] = exports[xlast.path]
           /\ DirectivesOf(e, xlast.path, {"--tmpfs", "--dir"}) = {}
           /\ Cardinality(DirectivesOf(e, xlast.path, {"--bind", "--ro-bind"})) = 1
           /\ (exports'[xlast.path] = FLATPAK_FILESYSTEM_MODE_READ_ONLY =>
                 DirectivesOf(e, xlast.path, {"--ro-bind"}) # {}) ]_vars

\* a directory exposed read-only, then hidden, still bound read-only
C10_Witness ==
  /\ xops = 2
  /\ xlast.op = "tmpfs" /\ xlast.ok
  /\ path_is_dir(xlast.path)
  /\ xmodes[xlast.path] = {FLATPAK_FILESYSTEM_MODE_READ_ONLY}
  /\ exports[xlast.path] = FLATPAK_FILESYSTEM_MODE_READ_ONLY
  /\ DirectivesOf(exports_add_bwrap_args(exports), xlast.path, {"--ro-bind"}) # {}


(* The sandbox root the emitted argv e builds, read at path p: the mount that
   decides p is the last bind, tmpfs or symlink directive whose destination
   is p or a parent of p (a dir directive mounts nothing).  A symlink
   directive sends the lookup to its target. *)
ProbePaths ==
  { <<"/", "home">>, <<"/", "home", "u">>, <<"/", "home", "u", "f">>,
    <<"/", "home", "u", "in">>, <<"/", "lnk">>, <<"/", "lnk", "f">>,
    <<"/", "tmp">>, <<"/", "usr", "x">>, <<"/", "missing">>,
    <<"/", "home", "u", "missing">> }

Deciding(e, p) ==
  { n \in 1..Len(e) :
      /\ e[n].op \in {"--bind", "--ro-bind", "--tmpfs", "--symlink"}
      /\ flatpak_has_path_prefix(p, e[n].dst) }

RECURSIVE CoveredByBind(_, _, _)
CoveredByBind(e, p, depth) ==
  IF Deciding(e, p) = {} \/ depth > MaxExposeLevel THEN FALSE
  ELSE LET n == CHOOSE m \in Deciding(e, p) : \A o \in Deciding(e, p) : o <= m
       IN IF e[n].op \in {"--bind", "--ro-bind"} THEN lstat(p) # "none"
          ELSE IF e[n].op = "--tmpfs" THEN FALSE
          ELSE CoveredByBind(
                 e,
                 flatpak_canonicalize_filename(
                    g_path_get_dirname(e[n].dst) \o e[n].src
                      \o SubSeq(p, Len(e[n].dst) + 1, Len(p))),
                 depth + 1)

\* C11: for every planner state and every absolute path p,
\* flatpak_exports_path_is_visible(p) is true exactly when the directives
\* emitted by exports_add_bwrap_args, applied in order, leave p covered by a
\* bind mount of the host path.
C11_VisibleIffBound ==
  LET e == exports_add_bwrap_args(exports)
  IN \A p \in ProbePaths :
        flatpak_exports_path_is_visible(exports, p) <=> CoveredByBind(e, p, 0)


Opaque(path) ==
  \E i \in 1..Len(dont_export_in) : flatpak_has_path_prefix(path, dont_export_in[i])

\* C12: after any sequence of expose, tmpfs and dir requests, no key of the
\* planner is equal to or beneath an opaque prefix, and emit produces no
\* directive at such a path.
C12_NoOpaqueKey ==
  LET e == exports_add_bwrap_args(exports)
  IN /\ \A key \in DOMAIN exports : ~Opaque(key)
     /\ \A n \in 1..Len(e) : ~Opaque(e[n].dst)

\* requests reaching an opaque prefix through ".." or through a symlink were
\* refused while other paths are recorded
C12_Witness ==
  /\ xlast.op \in {"expose", "tmpfs", "dir"}
  /\ xlast.path \in {<<"/", "bad">>, <<"/", "home", "..", "usr", "x">>}
  /\ ~xlast.ok
  /\ exports # exports_new

(***************************************************************************)
(* Properties of a launch                                                  *)
(***************************************************************************)
(* position of the first occurrence of event e in the launch, 0 if absent *)
Pos(e) ==
  IF \E i \in 1..Len(events) : events[i] = e
  THEN CHOOSE i \in 1..Len(events) : events[i] = e /\ \A j \in 1..(i - 1) : events[j] # e
  ELSE 0

Happened(e) == Pos(e) # 0

(* b happened only after a did *)
Before(a, b) == Happened(b) => (Happened(a) /\ Pos(a) < Pos(b))

SbxStarted == pc \in {"running", "returned"}

(* C13: in every launch regenerate_ld_cache has returned, and a nested
   ldconfig it started has exited, before .flatpak-info is published;
   .flatpak-info is published and the transient-scope registration was
   attempted before the D-Bus proxy is spawned; and a spawned proxy has
   answered the readiness handshake before the sandbox helper is started. *)
C13_LaunchOrdering ==
  /\ Before("regenerate_ld_cache", "flatpak_info")
  /\ (Happened("ldconfig") /\ Happened("flatpak_info")
        => Before("ldconfig_exited", "flatpak_info"))
  /\ Before("flatpak_info", "proxy_spawned")
  /\ Before("transient_unit", "proxy_spawned")
  /\ (Happened("proxy_spawned") => Before("sync_read_1", "sbx"))
  /\ (SbxStarted <=> Happened("sbx"))

C13_Witness ==
  /\ SbxStarted
  /\ Happened("ldconfig_exited")
  /\ Happened("proxy_spawned")

(* the launch has a proxy to start: one of the three lists has arguments *)
ProxyWanted ==
  \/ has_args(run.session_bus_proxy_argv)
  \/ has_args(run.system_bus_proxy_argv)
  \/ has_args(run.a11y_bus_proxy_argv)

(* C14: when one of the session, system and a11y proxy argument lists is not
   empty, the sandbox helper is started only after the proxy was spawned and
   the read from the sync pipe that follows the spawn returned one byte; when
   the spawn fails or the read returns anything else the launch ends with an
   error and the sandbox helper is never started. *)
C14_ProxyHandshake ==
  /\ (Happened("sbx") /\ ProxyWanted
        => /\ Happened("proxy_spawned")
           /\ Pos("sync_read_1") = Pos("proxy_spawned") + 1
           /\ Pos("sync_read_1") < Pos("sbx"))
  /\ (Happened("spawn_failed") \/ Happened("sync_read_0")
        \/ Happened("sync_read_failed")
        => pc = "failed" /\ Happened("error") /\ ~Happened("sbx"))
  /\ (Happened("proxy_spawned") /\ Len(events) > Pos("proxy_spawned")
        => events[Pos("proxy_spawned") + 1]
             \in {"sync_read_1", "sync_read_0", "sync_read_failed"})

C14_Witness == SbxStarted /\ ProxyWanted /\ Happened("sync_read_1")

(* the launch follows one whose ld.so cache step returned a descriptor of the
   cache file for the same commits and extension strings, and its own cache
   step has looked for the file *)
SecondOfTwoAlike ==
  /\ pc # "idle"
  /\ prev.checksum = run.checksum
  /\ prev.ld_so_fd > 0
  /\ pc # "regenerate_ld_cache"

(* C19 as stated: with or without an app data directory, the second of two
   successive launches with the same commits and extension strings finds the
   cache file and does not run the nested ldconfig. *)
C19_ReuseAnyDirectory ==
  SecondOfTwoAlike => Happened("ld_cache_found") /\ ~Happened("ldconfig")

(* C19, amended: with an app data directory, the second of two successive
   launches with the same commits and extension strings, the first of which
   got the descriptor of the cache file, finds <cache-dir>/<key>, returns its
   descriptor and does not run the nested ldconfig. *)
C19_ReuseWithAppDirectory ==
  SecondOfTwoAlike /\ run.app_id_dir
    => /\ Happened("ld_cache_found")
       /\ ~Happened("ldconfig")
       /\ pc # "failed" => run.ld_so_fd > 0

C19_Witness ==
  SecondOfTwoAlike /\ run.app_id_dir /\ Happened("ld_cache_found")

(* ---------------------------------------------------------------------- *)
(* Properties of the seccomp filter                                        *)
(* ---------------------------------------------------------------------- *)
(* setup_seccomp has built the filter of this launch *)
FilterBuilt == pc # "idle" /\ Len(run.seccomp) > 0

ContextGrantsDevel ==
  flatpak_context_bit("devel", flatpak_context_features) \in run.app_context.features

(* the filter has a rule that answers every call of scall with EPERM *)
HasEpermRule(scall) ==
  \E i \in 1..Len(run.seccomp) :
    /\ run.seccomp[i].scall = scall
    /\ run.seccomp[i].action = "EPERM"
    /\ run.seccomp[i].arg.arg = -1

(* the system calls of the filter's EPERM rules, in rule order *)
EpermScalls ==
  LET eperm(r) == r.action = "EPERM"
      rules == SelectSeq(run.seccomp, eperm)
  IN [i \in 1..Len(rules) |-> rules[i].scall]

BaseScalls ==
  [i \in 1..Len(syscall_blacklist("PER_LINUX")) |->
     syscall_blacklist("PER_LINUX")[i].scall]

HasTiocstiRule ==
  \E i \in 1..Len(run.seccomp) :
    /\ run.seccomp[i].scall = "ioctl"
    /\ run.seccomp[i].action = "EPERM"
    /\ run.seccomp[i].arg.arg = 1
    /\ run.seccomp[i].arg.op = "SCMP_CMP_EQ"
    /\ run.seccomp[i].arg.datum = TIOCSTI

(* every recorded call of scall got this action from the filter *)
EveryCall(scall, action) ==
  \A i \in 1..Len(run.syscalls) :
    run.syscalls[i].scall = scall => run.syscalls[i].action = action

(* C15 as stated: in every launch whose Context does not grant devel the
   filter has EPERM rules for ptrace and perf_event_open; when the Context
   grants devel the EPERM rules are the base list only; in both cases the
   filter has the EPERM rule for ioctl with arg1 == TIOCSTI. *)
C15_DevelFromContext ==
  FilterBuilt =>
    /\ (~ContextGrantsDevel
          => HasEpermRule("ptrace") /\ HasEpermRule("perf_event_open"))
    /\ (ContextGrantsDevel => EpermScalls = BaseScalls)
    /\ HasTiocstiRule

(* C15, amended: in every launch whose Context does not grant devel and whose
   run flags do not include DEVEL, the filter has EPERM rules for ptrace and
   perf_event_open and the sandboxed program's calls of them are answered
   with EPERM; when the Context grants devel or the run flags include DEVEL
   the EPERM rules are the base list only and those calls are allowed; in
   both cases the filter has the EPERM rule for ioctl with arg1 == TIOCSTI. *)
C15_DevelFromContextOrFlag ==
  FilterBuilt =>
    /\ (ContextGrantsDevel => "DEVEL" \in run.flags)
    /\ ("DEVEL" \notin run.flags
          => /\ HasEpermRule("ptrace") /\ HasEpermRule("perf_event_open")
             /\ EpermScalls = BaseScalls \o <<"perf_event_open", "ptrace">>
             /\ EveryCall("ptrace", "EPERM")
             /\ EveryCall("perf_event_open", "EPERM"))
    /\ ("DEVEL" \in run.flags
          => /\ EpermScalls = BaseScalls
             /\ EveryCall("ptrace", "ALLOW")
             /\ EveryCall("perf_event_open", "ALLOW"))
    /\ HasTiocstiRule
    /\ \A i \in 1..Len(run.syscalls) :
         run.syscalls[i].scall = "ioctl"
           => (run.syscalls[i].action = "EPERM" <=> run.syscalls[i].a[1] = TIOCSTI)

C15_Witness ==
  /\ FilterBuilt
  /\ ~ContextGrantsDevel
  /\ "DEVEL" \notin run.flags
  /\ \E i \in 1..Len(run.syscalls) :
       run.syscalls[i].scall = "ptrace" /\ run.syscalls[i].action = "EPERM"

(* C16: socket(family) is answered with EAFNOSUPPORT for every address
   family other than AF_UNIX, AF_INET, AF_INET6 and AF_NETLINK, and allowed
   for exactly those four. *)
C16_SocketFamilyFilter ==
  FilterBuilt =>
    \A i \in 1..Len(run.syscalls) :
      run.syscalls[i].scall = "socket"
        => run.syscalls[i].action =
             IF run.syscalls[i].a[0] \in {AF_UNIX, AF_INET, AF_INET6, AF_NETLINK}
             THEN "ALLOW" ELSE "EAFNOSUPPORT"

(* ---------------------------------------------------------------------- *)
(* Properties of file forwarding                                           *)
(* ---------------------------------------------------------------------- *)
Marker(arg) == arg \in {<<"@@">>, <<"@@u">>}

(* the markers of args before position i *)
MarkersBefore(args_, i) == { j \in 1..(i - 1) : Marker(args_[j]) }

(* args[i] is inside a span: the markers before it are odd in number; the
   span's kind is the kind of the marker that opened it *)
InSpan(args_, i) ==
  ~Marker(args_[i]) /\ Cardinality(MarkersBefore(args_, i)) % 2 = 1

SpanMarker(args_, i) ==
  args_[CHOOSE j \in MarkersBefore(args_, i) :
          \A k \in MarkersBefore(args_, i) : k <= j]

InPathSpan(args_, i) == InSpan(args_, i) /\ SpanMarker(args_, i) = <<"@@">>
InUriSpan(args_, i) == InSpan(args_, i) /\ SpanMarker(args_, i) = <<"@@u">>

(* the positions of the arguments that are not markers, in order *)
Plain(args_) ==
  LET keep(i) == ~Marker(args_[i])
  IN SelectSeq([i \in 1..Len(args_) |-> i], keep)

(* add_rest_args of this launch has run with file forwarding enabled *)
RestArgsDone ==
  /\ pc # "idle"
  /\ Happened("add_rest_args")
  /\ "FILE_FORWARDING" \in run.flags

RestArgsAdded == RestArgsDone /\ Pos("error") # Pos("add_rest_args") + 1

(* the arguments after the command in the final argv *)
FinalArgs == Tail(run.real_argv_array)

DocPath(file) == doc_mount_path \o <<"doc-id">> \o <<file[Len(file)]>>

Visible(file) == flatpak_exports_path_is_visible(run.exports, file)

(* C17 as stated: with file forwarding enabled and the document portal
   reachable, an argument inside an @@ span is replaced by
   <doc-mount>/<doc-id>/<basename> exactly when it is an absolute path that
   is not visible; an argument inside the span that is not an absolute path
   is passed through unchanged and causes no portal call. *)
C17_AbsoluteOnly ==
  RestArgsDone /\ run.portal = "ok" =>
    \A k \in 1..Len(Plain(run.args)) :
      LET i == Plain(run.args)[k]
          arg == run.args[i]
      IN InPathSpan(run.args, i) =>
           IF g_path_is_absolute(arg)
           THEN RestArgsAdded =>
                  FinalArgs[k] = IF Visible(flatpak_canonicalize_filename(arg))
                                 THEN arg
                                 ELSE DocPath(flatpak_canonicalize_filename(arg))
           ELSE /\ RestArgsAdded => FinalArgs[k] = arg
                /\ \A n \in 1..Len(run.forwarded) :
                     run.forwarded[n] # g_file_new_for_path(arg)

(* C17, amended: with file forwarding enabled and the document portal
   reachable, an argument inside an @@ span names the file it resolves to
   from the working directory, whether it is absolute or not; when
   add_rest_args succeeds the argument is replaced by
   <doc-mount>/<doc-id>/<basename> exactly when that file is not visible, and
   is passed through unchanged when it is visible; a file that is not visible
   is handed to the portal, and when it cannot be opened add_rest_args fails
   and no argv is produced. *)
C17_ResolvedPath ==
  RestArgsDone /\ run.portal = "ok" =>
    /\ \A k \in 1..Len(Plain(run.args)) :
         LET i == Plain(run.args)[k]
             arg == run.args[i]
             file == g_file_new_for_path(arg)
         IN InPathSpan(run.args, i) /\ RestArgsAdded =>
              /\ FinalArgs[k] = IF Visible(file) THEN arg ELSE DocPath(file)
              /\ ~Visible(file) =>
                    /\ g_file_test_exists(file)
                    /\ \E n \in 1..Len(run.forwarded) : run.forwarded[n] = file
    /\ ~RestArgsAdded =>
         /\ pc = "failed"
         /\ Len(run.forwarded) >= 1
         /\ ~g_file_test_exists(run.forwarded[Len(run.forwarded)])
         /\ ~Visible(run.forwarded[Len(run.forwarded)])
         /\ run.real_argv_array = <<>>

C17_Witness ==
  /\ RestArgsAdded
  /\ run.portal = "ok"
  /\ \E k \in 1..Len(Plain(run.args)) :
       /\ InPathSpan(run.args, Plain(run.args)[k])
       /\ ~g_path_is_absolute(run.args[Plain(run.args)[k]])
       /\ FinalArgs[k] = DocPath(<<"/", "home", "u", "f">>)

(* the file an argument of a URI span stands for, <<>> when it is neither a
   file: URI nor an absolute path *)
UriSpanFile(arg) ==
  IF g_str_has_prefix(arg, "file:") THEN flatpak_canonicalize_filename(Tail(arg))
  ELSE IF g_path_is_absolute(arg) THEN flatpak_canonicalize_filename(arg)
  ELSE <<>>

(* C18: with file forwarding enabled, for every argument list that
   add_rest_args accepts, no @@ or @@u token is in the final argv; the
   arguments that are not markers keep their order and those outside a span
   are unchanged; a marker that does not close a span opens one of its kind,
   which lasts until the next marker: inside a @@ span every argument is a
   path-forwarding candidate and inside a @@u span every argument is a
   URI-forwarding candidate (a file: URI or an absolute path, replaced by a
   file: URI of the document when the file is not visible). *)
C18_SpanMarkers ==
  RestArgsAdded =>
    /\ Len(FinalArgs) = Len(Plain(run.args))
    /\ \A k \in 1..Len(Plain(run.args)) :
         LET i == Plain(run.args)[k]
             arg == run.args[i]
         IN /\ ~Marker(FinalArgs[k])
            /\ ~InSpan(run.args, i) => FinalArgs[k] = arg
            /\ InSpan(run.args, i) /\ run.portal # "ok" => FinalArgs[k] = arg
            /\ InPathSpan(run.args, i) /\ run.portal = "ok"
                 => FinalArgs[k] = IF Visible(g_file_new_for_path(arg))
                                   THEN arg
                                   ELSE DocPath(g_file_new_for_path(arg))
            /\ InUriSpan(run.args, i) /\ run.portal = "ok"
                 => FinalArgs[k] = IF UriSpanFile(arg) = <<>> \/ Visible(UriSpanFile(arg))
                                   THEN arg
                                   ELSE <<"file:">> \o DocPath(UriSpanFile(arg))

C18_Witness ==
  /\ RestArgsAdded
  /\ run.portal = "ok"
  /\ Len(run.args) = 3
  /\ run.args[1] = <<"@@u">>
  /\ run.args[3] = <<"@@">>
  /\ FinalArgs = << <<"file:">> \o DocPath(<<"/", "home", "u", "f">>) >>

(* ---------------------------------------------------------------------- *)
(* Properties of the environment arguments                                 *)
(* ---------------------------------------------------------------------- *)
(* flatpak_run_add_environment_args of this launch has filled argv_array *)
EnvDone == pc # "idle" /\ Happened("add_environment_args")

(* filesystems[name] is present with a granting mode *)
Granted(name) ==
  /\ name \in DOMAIN run.app_context.filesystems
  /\ run.app_context.filesystems[name] # 0

(* the --bind of <home>/.var/app/<app-id>/<persist> onto <home>/<persist> *)
PersistBind(persist) ==
  [op |-> "--bind",
   src |-> <<"/", "home", "u", ".var", "app", "org.app">> \o persist,
   dst |-> <<"/", "home", "u">> \o persist]

(* the binds of one path onto another in argv_array *)
BindsOnto ==
  { run.argv_array[i] : i \in { j \in 1..Len(run.argv_array) :
                                 /\ run.argv_array[j].op = "--bind"
                                 /\ run.argv_array[j].src # run.argv_array[j].dst } }

(* C20: the --bind of <home>/.var/app/<app-id>/<persist> onto
   <home>/<persist> is emitted for every entry of the Context's persistent
   set if and only if neither filesystems[host] nor filesystems[home] is
   present with a granting mode; when either is granted no persistent bind is
   emitted. *)
C20_PersistentOrHome ==
  EnvDone =>
    BindsOnto = IF ~Granted(<<"host">>) /\ ~Granted(<<"home">>)
                THEN { PersistBind(p) : p \in DOMAIN run.app_context.persistent }
                ELSE {}

C20_Witness ==
  /\ EnvDone
  /\ <<"home">> \in DOMAIN run.app_context.filesystems
  /\ ~Granted(<<"home">>)
  /\ ~Granted(<<"host">>)
  /\ Granted(<<"/", "home", "u">>)
  /\ BindsOnto = { PersistBind(<<".p">>), PersistBind(<<".q">>) }

(* ---------------------------------------------------------------------- *)
(* Properties of a single planner request                                  *)
(* ---------------------------------------------------------------------- *)
(* the step is an expose, tmpfs or dir request that returned failure *)
RequestFailed == xops' = xops + 1 /\ ~xlast'.ok

(* C24: when an expose, tmpfs or dir request returns failure (relative path,
   missing path, unsupported file type, opaque prefix, a symlink whose target
   fails, or symlink nesting deeper than 40 levels) the planner's map is
   exactly as it was before the request. *)
C24_FailedExposeAtomic == [][RequestFailed => exports' = exports]_vars

(* a request through a symlink whose target is refused, or into a symlink
   cycle, has failed on a planner that holds entries *)
C24_Witness ==
  /\ xops >= 2
  /\ ~xlast.ok
  /\ xlast.path \in {<<"/", "bad">>, <<"/", "c1">>}
  /\ expose_walks[xlast.path].links # <<>>
  /\ exports # exports_new

(* paths whose symlinks form a cycle on the host *)
CyclePaths ==
  { <<"/", "c1">>, <<"/", "c2">>, <<"/", "home", "u", "a">>,
    <<"/", "home", "u", "b">> }

(* C25: symlink resolution in the planner always terminates: every expose
   request returns after at most 40 nested resolutions, and
   flatpak_exports_path_is_visible returns for every path, also where the
   symlinks under an exported directory form a cycle. *)
C25_ResolutionTerminates ==
  /\ \A p \in ExposePaths :
        /\ expose_walks[p].status \in {"ok", "fail"}
        /\ expose_walks[p].level <= MaxExposeLevel + 1
  /\ \A p \in ProbePaths \cup CyclePaths :
        is_visible_call(exports, p) \in {"true", "false"}

(* a is a proper ancestor of b *)
ProperAncestor(a, b) == a # b /\ flatpak_has_path_prefix(b, a)

(* C26: in the argv of exports_add_bwrap_args, for two recorded exports a
   and b with a a proper ancestor of b, every directive for a comes before
   every directive for b. *)
C26_ParentsFirst ==
  LET e == exports_add_bwrap_args(exports)
  IN \A i, j \in 1..Len(e) :
        ( /\ e[i].dst \in DOMAIN exports
          /\ e[j].dst \in DOMAIN exports
          /\ ProperAncestor(e[i].dst, e[j].dst) ) => i < j

(* the parent /home was recorded after its descendant /home/u/f, and both
   have a directive in the argv *)
C26_Witness ==
  LET e == exports_add_bwrap_args(exports)
  IN /\ xlast.ok /\ xlast.op = "expose" /\ xlast.path = <<"/", "home">>
     /\ <<"/", "home", "u", "f">> \in DOMAIN exports
     /\ DirectivesOf(e, <<"/", "home">>, {"--bind", "--ro-bind"}) # {}
     /\ DirectivesOf(e, <<"/", "home", "u", "f">>, {"--bind", "--ro-bind"}) # {}

(* the recorded proper ancestors of p that are not dir-only entries *)
MountedAncestors(p) ==
  { q \in DOMAIN exports : ProperAncestor(q, p) /\ exports[q] # FAKE_MODE_DIR }

(* the nearest of them is not a tmpfs: p lies inside a mount of the host *)
InsideMount(p) ==
  /\ MountedAncestors(p) # {}
  /\ LET near == CHOOSE q \in MountedAncestors(p) :
                     \A o \in MountedAncestors(p) : Len(o) <= Len(q)
     IN exports[near] # FAKE_MODE_TMPFS

(* the nearest of them is a tmpfs *)
TmpfsAncestor(p) ==
  /\ MountedAncestors(p) # {}
  /\ ~InsideMount(p)

TmpfsExports == { p \in DOMAIN exports : exports[p] = FAKE_MODE_TMPFS }

(* C27 as stated: for an export recorded with mode tmpfs the argv has a
   --dir directive exactly when the host path is a real directory and its
   parent is not a tmpfs ancestor, and a --tmpfs directive in every other
   case; a tmpfs export is never without a directive. *)
C27_TmpfsEmission ==
  LET e == exports_add_bwrap_args(exports)
  IN \A p \in TmpfsExports :
        LET dir_case == path_is_dir(p) /\ ~TmpfsAncestor(p)
        IN /\ (DirectivesOf(e, p, {"--dir"}) # {}) <=> dir_case
           /\ (DirectivesOf(e, p, {"--tmpfs"}) # {}) <=> ~dir_case

AllOps == {"--bind", "--ro-bind", "--tmpfs", "--dir", "--symlink"}

(* C27 amended: a tmpfs export whose host path is a real directory has
   exactly one directive, --tmpfs when the path lies inside a mount of the
   host and --dir when it does not; a tmpfs export whose host path is not a
   directory has no directive. *)
C27_TmpfsEmissionAmended ==
  LET e == exports_add_bwrap_args(exports)
  IN \A p \in TmpfsExports :
        IF path_is_dir(p)
        THEN /\ Cardinality(DirectivesOf(e, p, AllOps)) = 1
             /\ (DirectivesOf(e, p, {"--tmpfs"}) # {}) <=> InsideMount(p)
             /\ (DirectivesOf(e, p, {"--dir"}) # {}) <=> ~InsideMount(p)
        ELSE DirectivesOf(e, p, AllOps) = {}

(* /home is bound, the directory /home/u under it is a tmpfs export with a
   --tmpfs directive, and the regular file /home/u/f is a tmpfs export *)
C27_Witness ==
  LET e == exports_add_bwrap_args(exports)
  IN /\ <<"/", "home">> \in DOMAIN exports
     /\ exports[<<"/", "home">>] \in PermissionModes
     /\ {<<"/", "home", "u">>, <<"/", "home", "u", "f">>} \subseteq TmpfsExports
     /\ DirectivesOf(e, <<"/", "home", "u">>, {"--tmpfs"}) # {}

(***************************************************************************)
(* Properties of the effective Context                                     *)
(***************************************************************************)
(* flatpak_run_app has computed the effective Context of this launch *)
ContextComputed ==
  /\ pc # "idle"
  /\ ~(Len(events) >= 1 /\ events[1] = "compute_permissions")

(* what a key file specifies, as a Context *)
ContextOf(mk) == flatpak_context_load_metadata(flatpak_context_new, mk).c

(* the sources of the launch src that take part, in the order of the claim *)
SourceContexts(src) ==
  << add_default_permissions(flatpak_context_new) >>
  \o << ContextOf(src.runtime_metakey[1]) >>
  \o (IF src.metakey # <<>>
      THEN << ContextOf(src.metakey[1]), src.overrides >> ELSE <<>>)
  \o (IF src.extra_context # <<>> THEN << src.extra_context[1] >> ELSE <<>>)

LastOf(S) == CHOOSE i \in S : \A j \in S : j <= i

(* C21: the Context used for a launch is the defaults, the runtime
   metadata, the app metadata, the overrides and the caller's context
   combined in that order: every bit and every map key has the value of the
   last source that specifies it, and none where no source does. *)
C21_EffectivePrecedence ==
  ContextComputed /\ run.sources # <<>> =>
    LET S == SourceContexts(run.sources)
        eff == run.app_context
    IN /\ \A k \in BitsetKinds :
            \A b \in 0..(Len(k.names) - 1) :
               LET by == { i \in 1..Len(S) : b \in S[i][k.valid] }
               IN IF by = {}
                  THEN b \notin eff[k.valid] /\ b \notin eff[k.enabled]
                  ELSE /\ b \in eff[k.valid]
                       /\ b \in eff[k.enabled] <=> b \in S[LastOf(by)][k.enabled]
       /\ \A f \in MapFields :
            /\ DOMAIN eff[f] = UNION { DOMAIN S[i][f] : i \in 1..Len(S) }
            /\ \A key \in DOMAIN eff[f] :
                  LET by == { i \in 1..Len(S) : key \in DOMAIN S[i][f] }
                  IN eff[f][key] = S[LastOf(by)][f][key]

(* a launch where the runtime grants ipc, the app denies it and the caller
   grants it again, and where the app's policy for org.a replaces the
   runtime's *)
C21_Witness ==
  /\ ContextComputed
  /\ run.sources # <<>>
  /\ run.sources.runtime_metakey = <<MetaRuntime>>
  /\ run.sources.metakey = <<MetaApp>>
  /\ run.sources.overrides = flatpak_context_new
  /\ run.sources.extra_context # <<>>
  /\ 1 \in run.app_context.shares
  /\ run.app_context.session_bus_policy[<<"org.a">>] = FLATPAK_POLICY_FILTERED
  /\ run.app_context.env_vars[<<"K">>] = <<"W">>

(***************************************************************************)
(* Properties of the argv under the effective Context                      *)
(***************************************************************************)
(* the directives of the argv built for the sandbox helper *)
ArgvOps == { run.argv_array[i].op : i \in 1..Len(run.argv_array) }

NetworkShared ==
  flatpak_context_bit("network", flatpak_context_shares) \in run.app_context.shares

IpcShared ==
  flatpak_context_bit("ipc", flatpak_context_shares) \in run.app_context.shares

(* C23: the argv handed to the sandbox helper contains --unshare-net if and
   only if the network share is not enabled in the effective Context, and
   --unshare-ipc if and only if the ipc share is not enabled. *)
C23_UnshareFollowsShares ==
  SbxStarted =>
    /\ ("--unshare-net" \in ArgvOps) <=> ~NetworkShared
    /\ ("--unshare-ipc" \in ArgvOps) <=> ~IpcShared

(* the sandbox helper runs under a Context that shares the network and not
   ipc: the app's metadata grants network and denies the ipc share the
   runtime grants *)
C23_Witness ==
  /\ SbxStarted
  /\ run.sources # <<>>
  /\ run.sources.metakey = <<MetaApp>>
  /\ run.sources.runtime_metakey = <<MetaRuntime>>
  /\ NetworkShared /\ ~IpcShared
  /\ "--unshare-ipc" \in ArgvOps /\ "--unshare-net" \notin ArgvOps

(* the argument --<policy>=<name> with the policy's own token *)
FilterArg(name, policy) == <<"--", policies[policy + 1], "=">> \o name

(* list is head followed by one argument --<policy>=<name> for every name of
   ht whose policy is not none, in any order, and nothing else *)
MirrorsPolicy(list, head, ht) ==
  LET named == { name \in DOMAIN ht : ht[name] > 0 }
      rest == SubSeq(list, Len(head) + 1, Len(list))
  IN /\ Len(list) = Len(head) + Cardinality(named)
     /\ SubSeq(list, 1, Len(head)) = head
     /\ \A name \in named :
           Cardinality({ n \in 1..Len(rest) : rest[n] = FilterArg(name, ht[name]) }) = 1

(* C30: for a proxied bus the helper's argument list is the upstream
   address, the proxy socket path, --filter, for the session bus --own=<app-id>
   and --own=<app-id>.*, then exactly one argument --<policy>=<name> for every
   configured name whose policy is see, filtered, talk or own, <policy> being
   that entry's own token; names with policy none add nothing. *)
C30_FiltersMirrorPolicy ==
  EnvDone =>
    /\ has_args(run.session_bus_proxy_argv) =>
          MirrorsPolicy(run.session_bus_proxy_argv,
                        << <<"unix:path=/session">>, <<"session-bus-proxy">>,
                           <<"--filter">>, <<"--own=">> \o app_id,
                           <<"--own=">> \o app_id \o <<".*">> >>,
                        run.app_context.session_bus_policy)
    /\ has_args(run.system_bus_proxy_argv) =>
          MirrorsPolicy(run.system_bus_proxy_argv,
                        << <<"unix:path=/system">>, <<"system-bus-proxy">>,
                           <<"--filter">> >>,
                        run.app_context.system_bus_policy)

(***************************************************************************)
(* Properties of the ld.so cache step                                      *)
(***************************************************************************)
(* the cache directory could not be created, the nested ldconfig could not
   be spawned or exited non-zero, or the generated file could not be opened *)
LdCacheFailed ==
  /\ pc # "idle"
  /\ \/ Happened("mkdir_failed")
     \/ Happened("ldconfig_not_spawned")
     \/ (Happened("ldconfig_exited") /\ ~Happened("regenerate_ld_cache"))

(* C28: when the cache directory cannot be created, the nested ldconfig
   cannot be spawned or exits non-zero, or the generated cache file cannot be
   opened, flatpak_run_app returns an error: no descriptor is bound at
   /etc/ld.so.cache and the sandbox helper is never started. *)
C28_LdCacheFailuresFatal ==
  LdCacheFailed =>
    /\ pc = "failed"
    /\ run.ld_so_cache_bind = -1
    /\ ~Happened("sbx")

(* ---------------------------------------------------------------------- *)
(* Data of other applications                                              *)
(* ---------------------------------------------------------------------- *)
AppsDir == g_path_get_dirname(flatpak_get_data_dir(app_id))

(* paths of <home>/.var/app that are not under <home>/.var/app/<app-id> *)
OtherAppPaths ==
  { AppsDir \o <<"org.other">>, AppsDir \o <<"org.other", "f">> }

(* the launch has a per-app data directory, its Context grants host or home
   and has no granting entry for <home>/.var/app *)
HomeReachable ==
  /\ EnvDone
  /\ run.app_id_dir
  /\ Granted(<<"host">>) \/ Granted(<<"home">>)
  /\ ~Granted(AppsDirKey)

(* <home>/.var/app is a tmpfs, <home>/.var/app/<app-id> is bound read-write
   and no path of another application is visible or bound from the host *)
OthersHidden ==
  /\ DirectivesOf(run.argv_array, AppsDir, {"--tmpfs"}) # {}
  /\ DirectivesOf(run.argv_array, AppsDir, {"--bind", "--ro-bind"}) = {}
  /\ \E n \in DirectivesOf(run.argv_array, flatpak_get_data_dir(app_id), {"--bind"}) :
        run.argv_array[n].src = flatpak_get_data_dir(app_id)
  /\ \A p \in OtherAppPaths :
        /\ ~flatpak_exports_path_is_visible(run.exports, p)
        /\ ~CoveredByBind(run.argv_array, p, 0)

\* C29 as stated: when the Context grants host or home, the launch has a per-app
\* data directory and the Context does not grant <home>/.var/app, then
\* <home>/.var/app is hidden by a tmpfs, <home>/.var/app/<app-id> is bound
\* read-write, and no path under <home>/.var/app outside the application's own
\* directory shows host data.
C29_OthersHidden == HomeReachable => OthersHidden

\* C29 amended: the same, for a Context that also has no granting entry for a
\* path beneath <home>/.var/app.
C29_OthersHiddenUnlessGranted ==
  (HomeReachable /\ ~Granted(OtherAppKey)) => OthersHidden

\* home granted read-only, nothing granted in <home>/.var/app: tmpfs over the
\* parent and the own directory bound read-write
C29_Witness ==
  /\ HomeReachable
  /\ ~Granted(OtherAppKey)
  /\ ~Granted(<<"host">>)
  /\ run.app_context.filesystems[<<"home">>] = FLATPAK_FILESYSTEM_MODE_READ_ONLY
  /\ OthersHidden

(* ---------------------------------------------------------------------- *)
(* Descriptors after a failed launch                                       *)
(* ---------------------------------------------------------------------- *)
\* C22: whenever flatpak_run_app has returned an error before the sandbox
\* helper was started, every descriptor the launcher created for the sandbox
\* (payloads, seccomp, ld.so.cache, .flatpak-info and both ends of the sync
\* pipe) has been closed.
C22_NoDescriptorLeak == pc = "failed" => run.fds = {}

====
